---------------------------- MODULE Spec2Model ----------------------------
(***************************************************************************)
(* Model of the project dependency graph engine of inteli-packs            *)
(* (src/analyzer.js, class ProjectAnalyzer): reference extraction, path    *)
(* resolution, cycle detection, dead-file detection and the comparison of  *)
(* declared and used package names.                                        *)
(*                                                                         *)
(* Strings are sequences of one-character strings, so that split,          *)
(* startsWith, path.resolve and string concatenation are computed as the   *)
(* JavaScript code computes them.                                          *)
(***************************************************************************)
EXTENDS Integers, Sequences, FiniteSets, TLC

VARIABLES
    disk,             \* the regular files that exist on disk (absolute paths)
    unreadable,       \* the files of disk whose fs.readFile fails
    content,          \* content[f]: the lines of file f
    scanOrder,        \* what getSourceFiles / getAllFiles return, in order
    pc,               \* which method runs and where it is
    importGraph,      \* detectCircularImports: Map file -> extracted imports
    visited,          \* detectCircularImports: Set
    recursionStack,   \* detectCircularImports: Set
    path,             \* dfsDetectCycle: the array used as path stack
    circularImports,  \* detectCircularImports: the reported cycles
    frames,           \* the JavaScript call stack of dfsDetectCycle
    rootIdx,          \* position of the loop `for (const file of sourceFiles)`
    usedFiles,        \* detectDeadFiles: Set
    deadFiles,        \* detectDeadFiles: the result array
    fileIdx,          \* position of a loop over the scanned files
    pkgInput,         \* the arguments of a call of one of the pure methods
    pkgResult,        \* the value a call has returned
    entries,          \* entries[d]: what fs.readdir lists in directory d
    failing,          \* directories whose readdir and files whose stat throws
    scanFrames,       \* the JavaScript call stack of scanDirectory
    manifest,         \* package.json on disk: its parsed value, or why not
    loadedPackageJson, \* analyzeProject: the constant `packageJson`
    analysis,         \* analyzeSourceFiles: the object `analysis`
    earlier,          \* the call made before the files were repaired
    providers,        \* AIProvider: the Map of the registered providers
    fallbackChain,    \* AIProvider: the array fallbackChain
    chainIdx,         \* query: position of `for (const providerName of providers)`
    queried,          \* the calls of queryProvider made so far, in order
    attempt,          \* retry: the loop variable
    lastError,        \* retry: the variable lastError
    waited,           \* retry: the delays of the timers set so far, in order
    fnCalls           \* retry: the outcomes of the calls of fn so far, in order

vars == <<disk, unreadable, content, scanOrder, pc, importGraph, visited,
          recursionStack, path, circularImports, frames, rootIdx, usedFiles,
          deadFiles, fileIdx, pkgInput, pkgResult, entries, failing,
          scanFrames, manifest, loadedPackageJson, analysis, earlier,
          providers, fallbackChain, chainIdx, queried,
          attempt, lastError, waited, fnCalls>>

-----------------------------------------------------------------------------
(* Strings                                                                 *)

\* The empty string; also what a regular expression that did not match
\* contributes (a capture group [^'"]+ is never empty).
NoMatch == <<>>

\* String.prototype.startsWith for a one-character prefix.
startsWith(s, c) == Len(s) >= 1 /\ s[1] = c

\* String.prototype.indexOf for a one-character needle; 0 when absent.
indexOf(s, c) ==
    IF \E i \in 1..Len(s) : s[i] = c
    THEN CHOOSE i \in 1..Len(s) : s[i] = c /\ \A j \in 1..(i - 1) : s[j] # c
    ELSE 0

\* String.prototype.lastIndexOf for a one-character needle; 0 when absent.
lastIndexOf(s, c) ==
    IF \E i \in 1..Len(s) : s[i] = c
    THEN CHOOSE i \in 1..Len(s) : s[i] = c /\ \A j \in (i + 1)..Len(s) : s[j] # c
    ELSE 0

\* String.prototype.split for a one-character separator: "a/b" gives
\* <<"a","b">>, "/a" gives <<"","a">>, "a" gives <<"a">>.
RECURSIVE split(_, _)
split(s, sep) ==
    LET i == indexOf(s, sep)
    IN  IF i = 0 THEN <<s>>
        ELSE <<SubSeq(s, 1, i - 1)>> \o split(SubSeq(s, i + 1, Len(s)), sep)

\* Array.prototype.join with a one-character separator.
RECURSIVE join(_, _)
join(segs, sep) ==
    IF segs = <<>> THEN <<>>
    ELSE IF Len(segs) = 1 THEN segs[1]
    ELSE segs[1] \o <<sep>> \o join(Tail(segs), sep)

\* The elements of a sequence.
Range(s) == {s[i] : i \in 1..Len(s)}

\* The sequences of n distinct elements of S.
distinctSeqs(S, n) ==
    {c \in [1..n -> S] : \A i, j \in 1..n : c[i] = c[j] => i = j}

-----------------------------------------------------------------------------
(* Node's path module, POSIX flavour, on absolute paths                    *)

\* normalizeString of Node's path module: "" and "." segments are dropped,
\* ".." removes the segment before it and never climbs above the root.
RECURSIVE normalizeSegments(_, _)
normalizeSegments(segs, acc) ==
    IF segs = <<>> THEN acc
    ELSE LET h == Head(segs)
         IN  normalizeSegments(Tail(segs),
                 IF h = <<>> \/ h = <<".">> THEN acc
                 ELSE IF h = <<".", ".">>
                      THEN (IF acc = <<>> THEN acc ELSE SubSeq(acc, 1, Len(acc) - 1))
                      ELSE Append(acc, h))

\* An absolute path from its segments: "/" for none, "/a/b" for <<"a","b">>.
absolutePath(segs) == <<"/">> \o join(segs, "/")

\* path.resolve(from, to) with an absolute `from`: `to` replaces it when `to`
\* is absolute, else it is appended; the result is normalized and carries no
\* trailing slash.
path_resolve(from, to) ==
    absolutePath(normalizeSegments(
        split(IF startsWith(to, "/") THEN to ELSE from \o <<"/">> \o to, "/"), <<>>))

\* path.join(dir, name) with an absolute dir.
path_join(dir, name) ==
    absolutePath(normalizeSegments(split(dir \o <<"/">> \o name, "/"), <<>>))

\* path.dirname of a normalized path: everything before the last "/".
path_dirname(p) ==
    LET i == lastIndexOf(p, "/")
    IN  IF i = 0 THEN <<".">>
        ELSE IF i = 1 THEN <<"/">>
        ELSE SubSeq(p, 1, i - 1)

\* path.basename of a normalized path: everything after the last "/".
path_basename(p) == SubSeq(p, lastIndexOf(p, "/") + 1, Len(p))

\* p is a directory that exists because the file f lies in it or below it.
isAncestorDirectory(p, f) ==
    \/ p = <<"/">>
    \/ /\ Len(f) > Len(p)
       /\ f[Len(p) + 1] = "/"
       /\ SubSeq(f, 1, Len(p)) = p

\* fs.existsSync: true of an existing file and of an existing directory.
fs_existsSync(p) == p \in disk \/ \E f \in disk : isAncestorDirectory(p, f)

-----------------------------------------------------------------------------
(* ProjectAnalyzer: the pure helpers                                       *)

\* JavaScript's null; `if (resolvedPath)` is false of it.
Null == <<>>

\* The list `extensions` of resolveImportPath, in its order.
extensions ==
    << <<".", "j", "s">>, <<".", "t", "s">>, <<".", "j", "s", "x">>,
       <<".", "t", "s", "x">>, <<".", "m", "j", "s">> >>

\* The list `entryPoints` of isEntryPoint.
entryPoints ==
    { <<"i", "n", "d", "e", "x", ".", "j", "s">>,
      <<"i", "n", "d", "e", "x", ".", "t", "s">>,
      <<"m", "a", "i", "n", ".", "j", "s">>,
      <<"a", "p", "p", ".", "j", "s">>,
      <<"s", "e", "r", "v", "e", "r", ".", "j", "s">> }

\* A variant of isEntryPoint that looks the whole path up in the list.
isEntryPoint_wholePath(filePath) == filePath \in entryPoints

\* isEntryPoint: the base name is one of the entry-point names.
isEntryPoint(filePath) == path_basename(filePath) \in entryPoints

\* The first element of a sequence of paths that exists, or Null: the two
\* loops of resolveImportPath, which return at the first hit.
RECURSIVE firstExisting(_)
firstExisting(candidates) ==
    IF candidates = <<>> THEN Null
    ELSE IF fs_existsSync(Head(candidates)) THEN Head(candidates)
    ELSE firstExisting(Tail(candidates))

\* The first loop of resolveImportPath: the resolved path with each
\* extension appended.
extensionCandidates(resolvedPath) ==
    [i \in 1..Len(extensions) |-> resolvedPath \o extensions[i]]

\* The second loop of resolveImportPath: index<ext> inside the resolved path.
indexCandidates(resolvedPath) ==
    [i \in 1..Len(extensions) |->
        path_join(resolvedPath, <<"i", "n", "d", "e", "x">> \o extensions[i])]

\* A variant of resolveImportPath that runs the loop over the index files
\* before the loop over the extensions.
resolveImportPath_indexFirst(sourceFile, importPath) ==
    LET sourceDir    == path_dirname(sourceFile)
        resolvedPath == path_resolve(sourceDir, importPath)
        withIndex    == firstExisting(indexCandidates(resolvedPath))
    IN  IF withIndex # Null THEN withIndex
        ELSE firstExisting(extensionCandidates(resolvedPath))

\* resolveImportPath(sourceFile, importPath): the first existing path of the
\* first loop, else the first existing path of the second loop, else null.
resolveImportPath(sourceFile, importPath) ==
    LET sourceDir    == path_dirname(sourceFile)
        resolvedPath == path_resolve(sourceDir, importPath)
        withExt      == firstExisting(extensionCandidates(resolvedPath))
    IN  IF withExt # Null THEN withExt
        ELSE firstExisting(indexCandidates(resolvedPath))

\* A variant of extractImports that pushes the require-style capture of a
\* line before its import-style capture.
RECURSIVE extractImports_requireFirst(_)
extractImports_requireFirst(lines) ==
    IF lines = <<>> THEN <<>>
    ELSE LET line == Head(lines)
         IN  (IF line.req # NoMatch THEN <<line.req>> ELSE <<>>)
             \o (IF line.imp # NoMatch THEN <<line.imp>> ELSE <<>>)
             \o extractImports_requireFirst(Tail(lines))

\* extractImports(content).  A line is modelled by what the two regular
\* expressions capture on it: imp is group 1 of the first import-style match
\* (NoMatch when the line has none), req that of the first require-style one.
RECURSIVE extractImports(_)
extractImports(lines) ==
    IF lines = <<>> THEN <<>>
    ELSE LET line == Head(lines)
         IN  (IF line.imp # NoMatch THEN <<line.imp>> ELSE <<>>)
             \o (IF line.req # NoMatch THEN <<line.req>> ELSE <<>>)
             \o extractImports(Tail(lines))

\* getSourceFiles() and getAllFiles(): both run scanDirectory over the
\* project root with the same filters, and return the files in scan order.
getSourceFiles == scanOrder

\* A variant of getAllFiles that returns every file on disk, those in the
\* ignored directories among them.
getAllFiles_everyFile ==
    CHOOSE o \in [1..Cardinality(disk) -> disk] : \A f \in disk : \E i \in DOMAIN o : o[i] = f

getAllFiles == scanOrder

\* fs.readFile(sourceFile) succeeds.
readable(f) == f \in disk /\ f \notin unreadable

-----------------------------------------------------------------------------
(* The projects the analysis is run on                                     *)

\* Bound: the size of a project, counted as its module references plus the
\* files of the universe it lacks plus its unreadable files.
MaxSize == 4

ProjectRoot == <<"/", "p">>

\* No AIProvider exists and retry has not been called.
NoProviderNoRetry ==
    /\ providers = <<>>
    /\ fallbackChain = <<>>
    /\ chainIdx = 1
    /\ queried = <<>>
    /\ attempt = 0
    /\ lastError = 0
    /\ waited = <<>>
    /\ fnCalls = <<>>

FileA == <<"/", "p", "/", "a", ".", "j", "s">>

FileB == <<"/", "p", "/", "b", ".", "j", "s">>

FileS == <<"/", "p", "/", "s", "/", "i", "n", "d", "e", "x", ".", "j", "s">>

\* The source files a project may hold: two modules in the root directory
\* and the index file of a subdirectory.
Universe == {FileA, FileB, FileS}

\* The references a file of a project may contain: from the root directory
\* "./a", "./b", "./s"; from the subdirectory "../a", "../b", "./".
RefsFor(f) ==
    IF path_dirname(f) = ProjectRoot
    THEN { <<".", "/", "a">>, <<".", "/", "b">>, <<".", "/", "s">> }
    ELSE { <<".", ".", "/", "a">>, <<".", ".", "/", "b">>, <<".", "/">> }

\* A line `const x = require('<ref>')`.
requireLine(ref) == [imp |-> NoMatch, req |-> ref]

\* A line `import x from '<ref>'`.
importLine(ref) == [imp |-> ref, req |-> NoMatch]

\* The lines a file f may hold, one reference a line: b.js is written with
\* import statements, the other files with require calls.
LinesOf(f) ==
    IF f = FileB THEN {importLine(r) : r \in RefsFor(f)}
    ELSE {requireLine(r) : r \in RefsFor(f)}

\* The assignments of a text to every file of `files` that hold at most
\* `budget` references together.
RECURSIVE Contents(_, _)
Contents(files, budget) ==
    IF files = {} THEN {<<>>}
    ELSE LET f == CHOOSE x \in files : TRUE
         IN  UNION { { (f :> t) @@ rest : t \in [1..k -> LinesOf(f)],
                                         rest \in Contents(files \ {f}, budget - k) }
                     : k \in 0..budget }

\* The orders in which a scan may list the files of S.
Orders(S) == distinctSeqs(S, Cardinality(S))

\* A project: some files of the universe on disk, some of them unreadable,
\* every readable file with a text, listed by the scanner in some order.
InitProject ==
    \E d \in (SUBSET Universe) \ {{}} :
      \E u \in SUBSET d :
        LET faults == Cardinality(Universe \ d) + Cardinality(u)
        IN  /\ faults <= MaxSize
            /\ disk = d
            /\ unreadable = u
            /\ content \in { c @@ [f \in u |-> <<>>] : c \in Contents(d \ u, MaxSize - faults) }
            /\ scanOrder \in Orders(d)

-----------------------------------------------------------------------------
(* detectCircularImports and dfsDetectCycle                                *)

\* The import graph detectCircularImports builds: an entry for every scanned
\* file that could be read, holding what extractImports finds in it.
buildImportGraph ==
    [f \in {g \in Range(getSourceFiles) : readable(g)} |-> extractImports(content[f])]

\* A variant of importsOf that keeps the first import of a file only.
importsOf_firstOnly(file) ==
    IF file \in DOMAIN importGraph /\ importGraph[file] # <<>>
    THEN <<importGraph[file][1]>>
    ELSE <<>>

\* importGraph.get(file) || []
importsOf(file) == IF file \in DOMAIN importGraph THEN importGraph[file] ELSE <<>>

\* Array.prototype.slice(start) for start = indexOf(...): the suffix from the
\* first occurrence on; indexOf gives -1 when there is none, and slice(-1)
\* is the last element alone.
sliceFromIndexOf(arr, x) ==
    LET i == indexOf(arr, x)
    IN  IF i = 0 THEN SubSeq(arr, Len(arr), Len(arr)) ELSE SubSeq(arr, i, Len(arr))

\* A variant of cycleOf that pushes the slice of the path as it is, without
\* closing it by the file.
cycleOf_notClosed(pth, file) == sliceFromIndexOf(pth, file)

\* The cycle dfsDetectCycle pushes when `file` is on the recursion stack:
\* [...path.slice(path.indexOf(file)), file].
cycleOf(pth, file) == Append(sliceFromIndexOf(pth, file), file)

\* A variant of dfsEnter that tests visited before recursionStack, so that a
\* file on the recursion stack (which is visited) returns without a report.
dfsEnter_visitedFirst(file, frs) ==
    IF file \in visited
    THEN /\ frames' = frs
         /\ UNCHANGED <<visited, recursionStack, path, circularImports>>
    ELSE IF file \in recursionStack
    THEN /\ circularImports' = Append(circularImports, cycleOf(path, file))
         /\ frames' = frs
         /\ UNCHANGED <<visited, recursionStack, path>>
    ELSE /\ visited' = visited \cup {file}
         /\ recursionStack' = recursionStack \cup {file}
         /\ path' = Append(path, file)
         /\ frames' = Append(frs, [file |-> file, next |-> 1])
         /\ UNCHANGED circularImports

\* A variant of dfsEnter without the test of visited: a file that is not on
\* the recursion stack is entered, visited or not.
dfsEnter_revisits(file, frs) ==
    IF file \in recursionStack
    THEN /\ circularImports' = Append(circularImports, cycleOf(path, file))
         /\ frames' = frs
         /\ UNCHANGED <<visited, recursionStack, path>>
    ELSE /\ visited' = visited \cup {file}
         /\ recursionStack' = recursionStack \cup {file}
         /\ path' = Append(path, file)
         /\ frames' = Append(frs, [file |-> file, next |-> 1])
         /\ UNCHANGED circularImports

\* A call dfsDetectCycle(file, ...) up to the loop over the imports, made
\* with call stack frs: a file on the recursion stack reports a cycle and
\* returns, a visited file returns, any other file is marked, pushed on the
\* path and gets a frame whose loop stands before its first import.
dfsEnter(file, frs) ==
    IF file \in recursionStack
    THEN /\ circularImports' = Append(circularImports, cycleOf(path, file))
         /\ frames' = frs
         /\ UNCHANGED <<visited, recursionStack, path>>
    ELSE IF file \in visited
    THEN /\ frames' = frs
         /\ UNCHANGED <<visited, recursionStack, path, circularImports>>
    ELSE /\ visited' = visited \cup {file}
         /\ recursionStack' = recursionStack \cup {file}
         /\ path' = Append(path, file)
         /\ frames' = Append(frs, [file |-> file, next |-> 1])
         /\ UNCHANGED circularImports

project == <<disk, unreadable, content, scanOrder>>

deadVars == <<usedFiles, deadFiles, fileIdx>>

cycleVars == <<importGraph, visited, recursionStack, path, circularImports, frames, rootIdx>>

pkgVars == <<pkgInput, pkgResult>>

scanVars == <<entries, failing, scanFrames>>

runVars == <<manifest, loadedPackageJson, analysis, earlier>>

queryVars == <<providers, fallbackChain, chainIdx, queried>>

retryVars == <<attempt, lastError, waited, fnCalls>>

\* detectCircularImports is called: the files are scanned and read, the
\* import graph is built, the sets start empty.
DetectCircularImports ==
    /\ pc = "idle"
    /\ pc' = "cycles"
    /\ importGraph' = buildImportGraph
    /\ visited' = {}
    /\ recursionStack' = {}
    /\ circularImports' = <<>>
    /\ path' = <<>>
    /\ frames' = <<>>
    /\ rootIdx' = 1
    /\ UNCHANGED <<queryVars, retryVars>>
    /\ UNCHANGED <<project, deadVars, pkgVars, scanVars, runVars>>

\* A variant of CycleRoot that starts a traversal from the first file only.
CycleRoot_firstOnly ==
    /\ pc = "cycles"
    /\ frames = <<>>
    /\ rootIdx <= Len(getSourceFiles)
    /\ rootIdx' = rootIdx + 1
    /\ LET file == getSourceFiles[rootIdx]
       IN  IF file \notin visited /\ rootIdx = 1
           THEN dfsEnter(file, frames)
           ELSE UNCHANGED <<visited, recursionStack, path, circularImports, frames>>
    /\ UNCHANGED <<queryVars, retryVars>>
    /\ UNCHANGED <<pc, importGraph, project, deadVars, pkgVars, scanVars, runVars>>

\* A variant of CycleRoot that takes the files from the last to the first.
CycleRoot_lastFirst ==
    /\ pc = "cycles"
    /\ frames = <<>>
    /\ rootIdx <= Len(getSourceFiles)
    /\ rootIdx' = rootIdx + 1
    /\ LET file == getSourceFiles[Len(getSourceFiles) + 1 - rootIdx]
       IN  IF file \notin visited
           THEN dfsEnter(file, frames)
           ELSE UNCHANGED <<visited, recursionStack, path, circularImports, frames>>
    /\ UNCHANGED <<queryVars, retryVars>>
    /\ UNCHANGED <<pc, importGraph, project, deadVars, pkgVars, scanVars, runVars>>

\* One iteration of `for (const file of sourceFiles)`: a file not yet
\* visited starts a traversal with an empty path.
CycleRoot ==
    /\ pc = "cycles"
    /\ frames = <<>>
    /\ rootIdx <= Len(getSourceFiles)
    /\ rootIdx' = rootIdx + 1
    /\ LET file == getSourceFiles[rootIdx]
       IN  IF file \notin visited
           THEN dfsEnter(file, frames)
           ELSE UNCHANGED <<visited, recursionStack, path, circularImports, frames>>
    /\ UNCHANGED <<queryVars, retryVars>>
    /\ UNCHANGED <<pc, importGraph, project, deadVars, pkgVars, scanVars, runVars>>

\* A variant of DfsImport that takes only the references that start with
\* "./" for local ones, so that "../x" is never traversed.
DfsImport_dotSlashOnly ==
    /\ pc = "cycles"
    /\ frames # <<>>
    /\ LET top     == frames[Len(frames)]
           imports == importsOf(top.file)
       IN  /\ top.next <= Len(imports)
           /\ LET importPath   == imports[top.next]
                  resolvedPath == resolveImportPath(top.file, importPath)
                  advanced     == [frames EXCEPT ![Len(frames)].next = top.next + 1]
              IN  IF /\ startsWith(importPath, ".")
                     /\ startsWith(Tail(importPath), "/")
                     /\ resolvedPath # Null
                  THEN dfsEnter(resolvedPath, advanced)
                  ELSE /\ frames' = advanced
                       /\ UNCHANGED <<visited, recursionStack, path, circularImports>>
    /\ UNCHANGED <<queryVars, retryVars>>
    /\ UNCHANGED <<pc, importGraph, rootIdx, project, deadVars, pkgVars, scanVars, runVars>>

\* A variant of DfsImport that traverses a reference that starts with "."
\* also when no file is found for it, under the path it names.
DfsImport_entersUnresolved ==
    /\ pc = "cycles"
    /\ frames # <<>>
    /\ LET top     == frames[Len(frames)]
           imports == importsOf(top.file)
       IN  /\ top.next <= Len(imports)
           /\ LET importPath   == imports[top.next]
                  resolvedPath == resolveImportPath(top.file, importPath)
                  advanced     == [frames EXCEPT ![Len(frames)].next = top.next + 1]
              IN  IF startsWith(importPath, ".")
                  THEN IF resolvedPath # Null
                       THEN dfsEnter(resolvedPath, advanced)
                       ELSE dfsEnter(path_resolve(path_dirname(top.file), importPath), advanced)
                  ELSE /\ frames' = advanced
                       /\ UNCHANGED <<visited, recursionStack, path, circularImports>>
    /\ UNCHANGED <<queryVars, retryVars>>
    /\ UNCHANGED <<pc, importGraph, rootIdx, project, deadVars, pkgVars, scanVars, runVars>>

\* One iteration of `for (const importPath of imports)` in the innermost
\* call: a reference that starts with "." and resolves is traversed.
DfsImport ==
    /\ pc = "cycles"
    /\ frames # <<>>
    /\ LET top     == frames[Len(frames)]
           imports == importsOf(top.file)
       IN  /\ top.next <= Len(imports)
           /\ LET importPath   == imports[top.next]
                  resolvedPath == resolveImportPath(top.file, importPath)
                  advanced     == [frames EXCEPT ![Len(frames)].next = top.next + 1]
              IN  IF startsWith(importPath, ".") /\ resolvedPath # Null
                  THEN dfsEnter(resolvedPath, advanced)
                  ELSE /\ frames' = advanced
                       /\ UNCHANGED <<visited, recursionStack, path, circularImports>>
    /\ UNCHANGED <<queryVars, retryVars>>
    /\ UNCHANGED <<pc, importGraph, rootIdx, project, deadVars, pkgVars, scanVars, runVars>>

\* A variant of DfsReturn that leaves the file on the recursion stack.
DfsReturn_keepsStack ==
    /\ pc = "cycles"
    /\ frames # <<>>
    /\ LET top == frames[Len(frames)]
       IN  /\ top.next > Len(importsOf(top.file))
           /\ path' = SubSeq(path, 1, Len(path) - 1)
           /\ frames' = SubSeq(frames, 1, Len(frames) - 1)
    /\ UNCHANGED <<queryVars, retryVars>>
    /\ UNCHANGED <<pc, importGraph, visited, recursionStack, circularImports, rootIdx,
                   project, deadVars, pkgVars, scanVars, runVars>>

\* A variant of DfsReturn that leaves the file on the path.
DfsReturn_keepsPath ==
    /\ pc = "cycles"
    /\ frames # <<>>
    /\ LET top == frames[Len(frames)]
       IN  /\ top.next > Len(importsOf(top.file))
           /\ recursionStack' = recursionStack \ {top.file}
           /\ frames' = SubSeq(frames, 1, Len(frames) - 1)
    /\ UNCHANGED <<queryVars, retryVars>>
    /\ UNCHANGED <<pc, importGraph, visited, path, circularImports, rootIdx, project,
                   deadVars, pkgVars, scanVars, runVars>>

\* The innermost call has gone through its imports: it leaves the recursion
\* stack and the path, and returns.
DfsReturn ==
    /\ pc = "cycles"
    /\ frames # <<>>
    /\ LET top == frames[Len(frames)]
       IN  /\ top.next > Len(importsOf(top.file))
           /\ recursionStack' = recursionStack \ {top.file}
           /\ path' = SubSeq(path, 1, Len(path) - 1)
           /\ frames' = SubSeq(frames, 1, Len(frames) - 1)
    /\ UNCHANGED <<queryVars, retryVars>>
    /\ UNCHANGED <<pc, importGraph, visited, circularImports, rootIdx, project,
                   deadVars, pkgVars, scanVars, runVars>>

\* detectCircularImports returns circularImports.
CycleFinish ==
    /\ pc = "cycles"
    /\ frames = <<>>
    /\ rootIdx > Len(getSourceFiles)
    /\ pc' = "cyclesDone"
    /\ UNCHANGED <<queryVars, retryVars>>
    /\ UNCHANGED <<cycleVars, project, deadVars, pkgVars, scanVars, runVars>>

-----------------------------------------------------------------------------
(* detectDeadFiles                                                         *)

\* A variant of usedBy that records the reference resolved against the
\* directory of the file, without looking for the file it names.
usedBy_unresolved(sourceFile) ==
    IF readable(sourceFile)
    THEN LET imports == extractImports(content[sourceFile])
         IN  { path_resolve(path_dirname(sourceFile), imports[i]) :
                   i \in { j \in 1..Len(imports) : startsWith(imports[j], ".") } }
    ELSE {}

\* A variant of usedBy in which the first reference that does not resolve
\* ends the loop over the references of the file.
usedBy_stopsAtUnresolved(sourceFile) ==
    IF readable(sourceFile)
    THEN LET imports == extractImports(content[sourceFile])
             failed  == {j \in 1..Len(imports) :
                           /\ startsWith(imports[j], ".")
                           /\ resolveImportPath(sourceFile, imports[j]) = Null}
         IN  { resolveImportPath(sourceFile, imports[i]) :
                   i \in { j \in 1..Len(imports) :
                             /\ startsWith(imports[j], ".")
                             /\ resolveImportPath(sourceFile, imports[j]) # Null
                             /\ \A k \in failed : j < k } }
    ELSE {}

\* What one iteration of the first loop of detectDeadFiles adds to usedFiles
\* for sourceFile: the resolved targets of its references that start with ".";
\* nothing when the file cannot be read.
usedBy(sourceFile) ==
    IF readable(sourceFile)
    THEN LET imports == extractImports(content[sourceFile])
         IN  { resolveImportPath(sourceFile, imports[i]) :
                   i \in { j \in 1..Len(imports) :
                             /\ startsWith(imports[j], ".")
                             /\ resolveImportPath(sourceFile, imports[j]) # Null } }
    ELSE {}

\* detectDeadFiles is called: both scans are made, the sets start empty.
DetectDeadFiles ==
    /\ pc = "idle"
    /\ pc' = "deadBuild"
    /\ usedFiles' = {}
    /\ deadFiles' = <<>>
    /\ fileIdx' = 1
    /\ UNCHANGED <<queryVars, retryVars>>
    /\ UNCHANGED <<project, cycleVars, pkgVars, scanVars, runVars>>

\* One iteration of `for (const sourceFile of sourceFiles)`.
DeadScanFile ==
    /\ pc = "deadBuild"
    /\ fileIdx <= Len(getSourceFiles)
    /\ usedFiles' = usedFiles \cup usedBy(getSourceFiles[fileIdx])
    /\ fileIdx' = fileIdx + 1
    /\ UNCHANGED <<queryVars, retryVars>>
    /\ UNCHANGED <<pc, deadFiles, project, cycleVars, pkgVars, scanVars, runVars>>

\* The first loop is over; the second one starts.
DeadBuildDone ==
    /\ pc = "deadBuild"
    /\ fileIdx > Len(getSourceFiles)
    /\ pc' = "deadSweep"
    /\ fileIdx' = 1
    /\ UNCHANGED <<queryVars, retryVars>>
    /\ UNCHANGED <<usedFiles, deadFiles, project, cycleVars, pkgVars, scanVars, runVars>>

\* One iteration of `for (const file of allFiles)`.
DeadSweepFile ==
    /\ pc = "deadSweep"
    /\ fileIdx <= Len(getAllFiles)
    /\ LET file == getAllFiles[fileIdx]
       IN  deadFiles' = IF file \notin usedFiles /\ ~isEntryPoint(file)
                        THEN Append(deadFiles, file)
                        ELSE deadFiles
    /\ fileIdx' = fileIdx + 1
    /\ UNCHANGED <<queryVars, retryVars>>
    /\ UNCHANGED <<pc, usedFiles, project, cycleVars, pkgVars, scanVars, runVars>>

\* detectDeadFiles returns deadFiles.
DeadFinish ==
    /\ pc = "deadSweep"
    /\ fileIdx > Len(getAllFiles)
    /\ pc' = "deadDone"
    /\ UNCHANGED <<queryVars, retryVars>>
    /\ UNCHANGED <<deadVars, project, cycleVars, pkgVars, scanVars, runVars>>

-----------------------------------------------------------------------------
(* The graph engine: a project, and one of the two detectors run on it     *)

Init ==
    /\ InitProject
    /\ pc = "idle"
    /\ importGraph = <<>>
    /\ visited = {}
    /\ recursionStack = {}
    /\ path = <<>>
    /\ circularImports = <<>>
    /\ frames = <<>>
    /\ rootIdx = 1
    /\ usedFiles = {}
    /\ deadFiles = <<>>
    /\ fileIdx = 1
    /\ pkgInput = <<>>
    /\ pkgResult = <<>>
    /\ entries = <<>>
    /\ failing = {}
    /\ scanFrames = <<>>
    /\ manifest = Null
    /\ loadedPackageJson = Null
    /\ analysis = Null
    /\ NoProviderNoRetry
    /\ earlier = Null

\* detectCircularImports run on a project.
Next ==
    \/ DetectCircularImports
    \/ CycleRoot
    \/ DfsImport
    \/ DfsReturn
    \/ CycleFinish

Spec == Init /\ [][Next]_vars

\* detectDeadFiles run on a project.
NextDead ==
    \/ DetectDeadFiles
    \/ DeadScanFile
    \/ DeadBuildDone
    \/ DeadSweepFile
    \/ DeadFinish

SpecDead == Init /\ [][NextDead]_vars

-----------------------------------------------------------------------------
(* analyzeFile and compareDependencies                                     *)

\* Set.prototype.add on a Set kept as the sequence of its elements in
\* insertion order.
setAdd(set, x) == IF x \in Range(set) THEN set ELSE Append(set, x)

\* A variant of newSet that keeps the array as it is, duplicates included.
newSet_noDedupe(arr) == arr

\* new Set(array): the elements in the order of their first occurrence.
RECURSIVE newSet(_)
newSet(arr) ==
    IF arr = <<>> THEN <<>>
    ELSE setAdd(newSet(SubSeq(arr, 1, Len(arr) - 1)), arr[Len(arr)])

\* packageName.split('/')[0]
mainPackage(packageName) == split(packageName, "/")[1]

\* What analyzeFile does with one captured reference: it is added to
\* imports, and its main package is added to usedPackages unless the
\* reference starts with "." or "/".
addReference(acc, packageName) ==
    [imports      |-> setAdd(acc.imports, packageName),
     usedPackages |-> IF ~startsWith(packageName, ".") /\ ~startsWith(packageName, "/")
                      THEN setAdd(acc.usedPackages, mainPackage(packageName))
                      ELSE acc.usedPackages]

\* The loop of analyzeFile over the lines: on each line the import-style
\* match is handled before the require-style match.
RECURSIVE analyzeLines(_, _)
analyzeLines(lines, acc) ==
    IF lines = <<>> THEN acc
    ELSE LET line      == Head(lines)
             afterImp  == IF line.imp # NoMatch THEN addReference(acc, line.imp) ELSE acc
             afterReq  == IF line.req # NoMatch THEN addReference(afterImp, line.req)
                          ELSE afterImp
         IN  analyzeLines(Tail(lines), afterReq)

\* analyzeFile(content, filePath); content is given by its lines.
analyzeFile(lines, filePath) ==
    LET acc == analyzeLines(lines, [imports |-> <<>>, usedPackages |-> <<>>])
    IN  [filePath      |-> filePath,
         lines         |-> Len(lines),
         imports       |-> acc.imports,
         usedPackages  |-> acc.usedPackages,
         unusedImports |-> <<>>]

\* Object.keys(packageJson[field] || {}): a package.json is a function from
\* the fields it has to the keys of each, in their order.
keysOf(packageJson, field) ==
    IF field \in DOMAIN packageJson THEN packageJson[field] ELSE <<>>

\* A variant of compareDependencies whose totalDependencies counts the keys
\* of the three fields, a name declared in two fields twice.
compareDependencies_countsKeys(packageJson, usedPackages) ==
    LET allKeys         == keysOf(packageJson, "dependencies")
                           \o keysOf(packageJson, "devDependencies")
                           \o keysOf(packageJson, "peerDependencies")
        allDependencies == newSet(allKeys)
    IN  [unusedDependencies  |->
             SelectSeq(allDependencies, LAMBDA dep : dep \notin Range(usedPackages)),
         missingDependencies |->
             SelectSeq(usedPackages, LAMBDA usedPkg : usedPkg \notin Range(allDependencies)),
         totalDependencies   |-> Len(allKeys),
         usedDependencies    |-> Len(usedPackages)]

\* compareDependencies(packageJson, usedPackages).
compareDependencies(packageJson, usedPackages) ==
    LET allDependencies == newSet(keysOf(packageJson, "dependencies")
                                  \o keysOf(packageJson, "devDependencies")
                                  \o keysOf(packageJson, "peerDependencies"))
    IN  [unusedDependencies  |->
             SelectSeq(allDependencies, LAMBDA dep : dep \notin Range(usedPackages)),
         missingDependencies |->
             SelectSeq(usedPackages, LAMBDA usedPkg : usedPkg \notin Range(allDependencies)),
         totalDependencies   |-> Len(allDependencies),
         usedDependencies    |-> Len(usedPackages)]

-----------------------------------------------------------------------------
(* The inputs analyzeFile and compareDependencies are applied to           *)

\* Bound: the number of lines of a text given to analyzeFile.
MaxLines == 2

\* The references of the texts: "ab", "ab/c", "@s/n", "@s/n/x/y", "./a", "/a".
PkgRefs ==
    { <<"a", "b">>, <<"a", "b", "/", "c">>,
      <<"@", "s", "/", "n">>, <<"@", "s", "/", "n", "/", "x", "/", "y">>,
      <<".", "/", "a">>, <<"/", "a">> }

\* The lines of the texts: each of the two shapes matches or does not.
PkgLines == [imp : PkgRefs \cup {NoMatch}, req : PkgRefs \cup {NoMatch}]

\* The package names of the manifests and of the used sets.
PkgA == <<"a">>

PkgB == <<"b">>

PkgC == <<"c">>

PkgD == <<"d">>

PkgNames == {PkgA, PkgB, PkgC, PkgD}

\* The sequences of distinct elements of S: the key lists of an object whose
\* keys are in S, and the Sets over S in every insertion order.
DistinctLists(S) == UNION {distinctSeqs(S, n) : n \in 0..Cardinality(S)}

\* The key lists a field may hold, by field.
FieldKeys ==
    [dependencies     |-> DistinctLists({PkgA, PkgB}),
     devDependencies  |-> DistinctLists({PkgB, PkgC}),
     peerDependencies |-> DistinctLists({PkgC, PkgD})]

\* The manifests: each of the three fields is absent or holds a key list.
PackageJsons ==
    UNION { {p \in [F -> DistinctLists(PkgNames)] : \A x \in F : p[x] \in FieldKeys[x]}
            : F \in SUBSET (DOMAIN FieldKeys) }

\* The arguments of one call: of analyzeFile, or of compareDependencies.
PkgInputs ==
    UNION { [op : {"analyzeFile"}, content : [1..n -> PkgLines], filePath : {FileA}]
            : n \in 1..MaxLines }
    \cup [op : {"compareDependencies"}, packageJson : PackageJsons,
          usedPackages : DistinctLists(PkgNames)]

\* analyzeFile is applied to its arguments.
AnalyzeFile ==
    /\ pc = "idle"
    /\ pkgInput.op = "analyzeFile"
    /\ pkgResult' = analyzeFile(pkgInput.content, pkgInput.filePath)
    /\ pc' = "analyzed"
    /\ UNCHANGED <<queryVars, retryVars>>
    /\ UNCHANGED <<pkgInput, project, cycleVars, deadVars, scanVars, runVars>>

\* compareDependencies is applied to its arguments.
CompareDependencies ==
    /\ pc = "idle"
    /\ pkgInput.op = "compareDependencies"
    /\ pkgResult' = compareDependencies(pkgInput.packageJson, pkgInput.usedPackages)
    /\ pc' = "compared"
    /\ UNCHANGED <<queryVars, retryVars>>
    /\ UNCHANGED <<pkgInput, project, cycleVars, deadVars, scanVars, runVars>>

InitPkg ==
    /\ pkgInput \in PkgInputs
    /\ pkgResult = <<>>
    /\ pc = "idle"
    /\ disk = {}
    /\ unreadable = {}
    /\ content = <<>>
    /\ scanOrder = <<>>
    /\ importGraph = <<>>
    /\ visited = {}
    /\ recursionStack = {}
    /\ path = <<>>
    /\ circularImports = <<>>
    /\ frames = <<>>
    /\ rootIdx = 1
    /\ usedFiles = {}
    /\ deadFiles = <<>>
    /\ fileIdx = 1
    /\ entries = <<>>
    /\ failing = {}
    /\ scanFrames = <<>>
    /\ manifest = Null
    /\ loadedPackageJson = Null
    /\ analysis = Null
    /\ NoProviderNoRetry
    /\ earlier = Null

NextPkg ==
    \/ AnalyzeFile
    \/ CompareDependencies

\* The two pure functions on package names, each applied to drawn arguments.
SpecPkg == InitPkg /\ [][NextPkg]_vars

-----------------------------------------------------------------------------
(* analyzeSourceFiles and analyzeProject                                   *)

\* isNodeProject(): fs.existsSync(packageJsonPath).
isNodeProject == manifest.state # "missing"

\* loadPackageJson() returns: the file is there and JSON.parse accepts it.
\* Otherwise it throws 'Failed to load package.json: ...'.
packageJsonLoads == manifest.state = "parsed"

\* set.forEach(x => target.add(x)): the elements are added in their order.
RECURSIVE addAll(_, _)
addAll(target, elements) ==
    IF elements = <<>> THEN target
    ELSE addAll(setAdd(target, Head(elements)), Tail(elements))

\* The object `analysis` as analyzeSourceFiles creates it.
newAnalysis(filePaths) ==
    [totalFiles          |-> Len(filePaths),
     totalLines          |-> 0,
     imports             |-> <<>>,
     usedPackages        |-> <<>>,
     unusedImports       |-> <<>>,
     missingDependencies |-> <<>>]

\* A variant of analyzeSourceFilesStep in which a file that cannot be read
\* is counted as a file of one line.
analyzeSourceFilesStep_countsUnread(acc, filePath) ==
    IF readable(filePath)
    THEN LET fileAnalysis == analyzeFile(content[filePath], filePath)
         IN  [acc EXCEPT
                 !.totalLines    = @ + fileAnalysis.lines,
                 !.imports       = addAll(@, fileAnalysis.imports),
                 !.usedPackages  = addAll(@, fileAnalysis.usedPackages),
                 !.unusedImports = @ \o fileAnalysis.unusedImports]
    ELSE [acc EXCEPT !.totalLines = @ + 1]

\* A variant of analyzeSourceFilesStep in which the sets of a file take
\* the place of the sets of `analysis`.
analyzeSourceFilesStep_replaces(acc, filePath) ==
    IF readable(filePath)
    THEN LET fileAnalysis == analyzeFile(content[filePath], filePath)
         IN  [acc EXCEPT
                 !.totalLines    = @ + fileAnalysis.lines,
                 !.imports       = fileAnalysis.imports,
                 !.usedPackages  = fileAnalysis.usedPackages,
                 !.unusedImports = @ \o fileAnalysis.unusedImports]
    ELSE acc

\* One iteration of the loop of analyzeSourceFiles: the file is read and
\* analysed and its figures are added to `analysis`; a file that cannot be
\* read is warned about and leaves `analysis` as it is.
analyzeSourceFilesStep(acc, filePath) ==
    IF readable(filePath)
    THEN LET fileAnalysis == analyzeFile(content[filePath], filePath)
         IN  [acc EXCEPT
                 !.totalLines    = @ + fileAnalysis.lines,
                 !.imports       = addAll(@, fileAnalysis.imports),
                 !.usedPackages  = addAll(@, fileAnalysis.usedPackages),
                 !.unusedImports = @ \o fileAnalysis.unusedImports]
    ELSE acc

\* analyzeSourceFiles(filePaths) is called with the scanned files.
AnalyzeSourceFiles ==
    /\ pc = "idle"
    /\ pc' = "sourceFiles"
    /\ analysis' = newAnalysis(getSourceFiles)
    /\ fileIdx' = 1
    /\ UNCHANGED <<queryVars, retryVars>>
    /\ UNCHANGED <<usedFiles, deadFiles, manifest, loadedPackageJson, earlier,
                   project, cycleVars, pkgVars, scanVars>>

\* One iteration of `for (const filePath of filePaths)`.
AnalyzeSourceFile ==
    /\ pc = "sourceFiles"
    /\ fileIdx <= Len(getSourceFiles)
    /\ analysis' = analyzeSourceFilesStep(analysis, getSourceFiles[fileIdx])
    /\ fileIdx' = fileIdx + 1
    /\ UNCHANGED <<queryVars, retryVars>>
    /\ UNCHANGED <<pc, usedFiles, deadFiles, manifest, loadedPackageJson, earlier,
                   project, cycleVars, pkgVars, scanVars>>

\* analyzeSourceFiles returns analysis.
AnalyzeSourceFilesReturn ==
    /\ pc = "sourceFiles"
    /\ fileIdx > Len(getSourceFiles)
    /\ pc' = "sourceDone"
    /\ pkgResult' = analysis
    /\ UNCHANGED <<queryVars, retryVars>>
    /\ UNCHANGED <<pkgInput, deadVars, runVars, project, cycleVars, scanVars>>

\* A variant of AnalyzeProject that scans the files whether or not
\* package.json could be loaded, and goes on with an empty manifest.
AnalyzeProject_toleratesManifest ==
    /\ pc = "idle"
    /\ pc' = "projectFiles"
    /\ loadedPackageJson' = IF packageJsonLoads THEN manifest.value ELSE <<>>
    /\ analysis' = newAnalysis(getSourceFiles)
    /\ fileIdx' = 1
    /\ UNCHANGED pkgResult
    /\ UNCHANGED <<queryVars, retryVars>>
    /\ UNCHANGED <<pkgInput, usedFiles, deadFiles, manifest, earlier,
                   project, cycleVars, scanVars>>

\* analyzeProject() up to the loop of analyzeSourceFiles: it throws when
\* there is no package.json and when package.json cannot be parsed; else the
\* files are scanned and the analysis of the source files starts.
AnalyzeProject ==
    /\ pc = "idle"
    /\ IF ~isNodeProject
       THEN /\ pc' = "threw"
            /\ pkgResult' = [error |-> "No package.json found in current directory"]
            /\ UNCHANGED <<loadedPackageJson, analysis, fileIdx>>
       ELSE IF ~packageJsonLoads
       THEN /\ pc' = "threw"
            /\ pkgResult' = [error |-> "Failed to load package.json"]
            /\ UNCHANGED <<loadedPackageJson, analysis, fileIdx>>
       ELSE /\ pc' = "projectFiles"
            /\ loadedPackageJson' = manifest.value
            /\ analysis' = newAnalysis(getSourceFiles)
            /\ fileIdx' = 1
            /\ UNCHANGED pkgResult
    /\ UNCHANGED <<queryVars, retryVars>>
    /\ UNCHANGED <<pkgInput, usedFiles, deadFiles, manifest, earlier,
                   project, cycleVars, scanVars>>

\* analyzeProject(): one iteration of the loop of analyzeSourceFiles.
AnalyzeProjectFile ==
    /\ pc = "projectFiles"
    /\ fileIdx <= Len(getSourceFiles)
    /\ analysis' = analyzeSourceFilesStep(analysis, getSourceFiles[fileIdx])
    /\ fileIdx' = fileIdx + 1
    /\ UNCHANGED <<queryVars, retryVars>>
    /\ UNCHANGED <<pc, usedFiles, deadFiles, manifest, loadedPackageJson, earlier,
                   project, cycleVars, pkgVars, scanVars>>

\* analyzeProject(): the used packages are compared with the declared ones
\* and the report is returned.
AnalyzeProjectFinish ==
    /\ pc = "projectFiles"
    /\ fileIdx > Len(getSourceFiles)
    /\ pc' = "projectDone"
    /\ LET dependencyComparison ==
               compareDependencies(loadedPackageJson, analysis.usedPackages)
       IN  pkgResult' =
               [packageJson          |-> loadedPackageJson,
                sourceFiles          |-> Len(getSourceFiles),
                sourceAnalysis       |-> analysis,
                dependencyComparison |-> dependencyComparison,
                summary |->
                    [totalFiles          |-> analysis.totalFiles,
                     totalLines          |-> analysis.totalLines,
                     totalDependencies   |-> dependencyComparison.totalDependencies,
                     unusedDependencies  |-> Len(dependencyComparison.unusedDependencies),
                     missingDependencies |-> Len(dependencyComparison.missingDependencies),
                     usedDependencies    |-> dependencyComparison.usedDependencies]]
    /\ UNCHANGED <<queryVars, retryVars>>
    /\ UNCHANGED <<pkgInput, deadVars, runVars, project, cycleVars, scanVars>>

-----------------------------------------------------------------------------
(* A project with a manifest, and the methods run on it                    *)

\* A line with no module reference.
blankLine == [imp |-> NoMatch, req |-> NoMatch]

\* The package names of the project: "ab", "@s/n" and "cd".
NameAb == <<"a", "b">>

NameSN == <<"@", "s", "/", "n">>

NameCd == <<"c", "d">>

\* The lines of a.js: blank, or one reference to the package "ab", to a
\* sub-path of it, to the scoped package "@s/n", to a sub-path of it, or to
\* a.js itself.
ProjectLines ==
    { blankLine,
      requireLine(NameAb),
      importLine(NameAb \o <<"/", "c">>),
      requireLine(NameSN),
      importLine(NameSN \o <<"/", "x">>),
      requireLine(<<".", "/", "a">>) }

\* The texts of b.js: a blank line, or an import of the package "ab".
ProjectTextsB == { <<blankLine>>, <<importLine(NameAb)>> }

\* The texts a file of the project may hold: a.js up to MaxLines lines.
ProjectTexts(f) ==
    IF f = FileA THEN UNION {[1..n -> ProjectLines] : n \in 1..MaxLines}
    ELSE ProjectTextsB

\* package.json: missing, not parsable, or parsed to an object whose
\* dependencies and devDependencies are each absent or hold some names.
Manifests ==
    { [state |-> "missing"], [state |-> "malformed"] }
    \cup { [state |-> "parsed", value |-> v] :
             v \in UNION { { p \in [F -> {<<NameAb>>, <<NameSN>>, <<NameAb, NameSN>>, <<NameCd>>}] :
                               /\ ("devDependencies" \in F => p["devDependencies"] = <<NameCd>>)
                               /\ ("dependencies" \in F => p["dependencies"] # <<NameCd>>) }
                           : F \in SUBSET {"dependencies", "devDependencies"} } }

\* A project of a.js and possibly b.js, some of them unreadable, with a
\* package.json in one of its states.
InitManifestProject ==
    /\ disk \in {{FileA}, {FileA, FileB}}
    /\ unreadable \in SUBSET disk
    /\ content \in [disk -> UNION {ProjectTexts(f) : f \in disk} \cup {<<>>}]
    /\ \A f \in disk : IF f \in unreadable THEN content[f] = <<>>
                       ELSE content[f] \in ProjectTexts(f)
    /\ scanOrder \in Orders(disk)
    /\ manifest \in Manifests

InitRun ==
    /\ InitManifestProject
    /\ pc = "idle"
    /\ importGraph = <<>>
    /\ visited = {}
    /\ recursionStack = {}
    /\ path = <<>>
    /\ circularImports = <<>>
    /\ frames = <<>>
    /\ rootIdx = 1
    /\ usedFiles = {}
    /\ deadFiles = <<>>
    /\ fileIdx = 1
    /\ pkgInput = <<>>
    /\ pkgResult = <<>>
    /\ entries = <<>>
    /\ failing = {}
    /\ scanFrames = <<>>
    /\ loadedPackageJson = Null
    /\ analysis = Null
    /\ NoProviderNoRetry
    /\ earlier = Null

\* An analysis of the project: analyzeProject, detectCircularImports or
\* detectDeadFiles is called and runs to its end.
NextRun ==
    \/ AnalyzeProject
    \/ AnalyzeProjectFile
    \/ AnalyzeProjectFinish
    \/ DetectCircularImports
    \/ CycleRoot
    \/ DfsImport
    \/ DfsReturn
    \/ CycleFinish
    \/ DetectDeadFiles
    \/ DeadScanFile
    \/ DeadBuildDone
    \/ DeadSweepFile
    \/ DeadFinish

SpecRun == InitRun /\ [][NextRun]_vars

-----------------------------------------------------------------------------
(* resolveImportPath and extractImports applied to drawn arguments         *)

\* A line of text is given by the module-reference statements on it from
\* left to right, each of the import shape or of the require shape.
importStatement(ref) == [shape |-> "import", ref |-> ref]

requireStatement(ref) == [shape |-> "require", ref |-> ref]

\* line.match(regex)[1] for a regular expression without the g flag: the
\* capture of the leftmost statement of the shape, NoMatch when none is there.
firstCapture(statements, shape) ==
    LET at == {i \in 1..Len(statements) : statements[i].shape = shape}
    IN  IF at = {} THEN NoMatch
        ELSE statements[CHOOSE i \in at : \A j \in at : i <= j].ref

\* The two matches extractImports makes on a line.
matchLine(statements) ==
    [imp |-> firstCapture(statements, "import"),
     req |-> firstCapture(statements, "require")]

\* content.split('\n') followed by the two matches on every line.
matchLines(text) == [i \in 1..Len(text) |-> matchLine(text[i])]

\* The module references of the texts given to extractImports.
RefX == <<"x">>

RefY == <<".", "/", "y">>

\* The lines of those texts: no statement; one of either shape; both shapes,
\* in either textual order; two statements of the same shape; a require
\* between two imports.
StatementLines ==
    { <<>>,
      <<importStatement(RefX)>>,
      <<requireStatement(RefY)>>,
      <<importStatement(RefX), requireStatement(RefY)>>,
      <<requireStatement(RefX), importStatement(RefY)>>,
      <<importStatement(RefY), importStatement(RefX)>>,
      <<requireStatement(RefX), requireStatement(RefY)>>,
      <<importStatement(RefX), requireStatement(RefX), importStatement(RefY)>> }

\* The files the resolver may find on disk: u with each of the five
\* extensions, the index files of the directory u, and what "./u.js" becomes
\* when an extension or an index file name is appended to it.
ResolverFiles ==
    { ProjectRoot \o <<"/", "u">> \o tl :
        tl \in { <<".", "j", "s">>, <<".", "t", "s">>, <<".", "j", "s", "x">>,
                 <<".", "t", "s", "x">>, <<".", "m", "j", "s">>,
                 <<"/", "i", "n", "d", "e", "x", ".", "j", "s">>,
                 <<"/", "i", "n", "d", "e", "x", ".", "t", "s">>,
                 <<"/", "i", "n", "d", "e", "x", ".", "j", "s", "x">>,
                 <<"/", "i", "n", "d", "e", "x", ".", "t", "s", "x">>,
                 <<"/", "i", "n", "d", "e", "x", ".", "m", "j", "s">>,
                 <<".", "j", "s", ".", "j", "s">>,
                 <<".", "j", "s", "/", "i", "n", "d", "e", "x", ".", "j", "s">> } }

\* The sets of files that can be on disk together: no file is at the same
\* time a directory that holds another one.
ResolverDisks ==
    {d \in SUBSET ResolverFiles : \A f, g \in d : ~isAncestorDirectory(f, g)}

\* The calls of resolveImportPath: from a.js with "./u", "./u.js" and "./v",
\* from s/index.js with "../u" and "../u.js".
ResolverCalls ==
    [sourceFile : {FileA},
     importPath : { <<".", "/", "u">>, <<".", "/", "u", ".", "j", "s">>, <<".", "/", "v">> }]
    \cup [sourceFile : {FileS},
          importPath : { <<".", ".", "/", "u">>, <<".", ".", "/", "u", ".", "j", "s">> }]

\* resolveImportPath is applied to its arguments.
ResolveImportPath ==
    /\ pc = "idle"
    /\ pkgInput.op = "resolveImportPath"
    /\ pkgResult' = resolveImportPath(pkgInput.sourceFile, pkgInput.importPath)
    /\ pc' = "resolved"
    /\ UNCHANGED <<queryVars, retryVars>>
    /\ UNCHANGED <<pkgInput, project, cycleVars, deadVars, scanVars, runVars>>

\* extractImports is applied to a text.
ExtractImports ==
    /\ pc = "idle"
    /\ pkgInput.op = "extractImports"
    /\ pkgResult' = extractImports(matchLines(pkgInput.content))
    /\ pc' = "extracted"
    /\ UNCHANGED <<queryVars, retryVars>>
    /\ UNCHANGED <<pkgInput, project, cycleVars, deadVars, scanVars, runVars>>

InitFn ==
    /\ \/ /\ disk \in ResolverDisks
          /\ \E c \in ResolverCalls :
                pkgInput = [op |-> "resolveImportPath", sourceFile |-> c.sourceFile,
                            importPath |-> c.importPath]
       \/ /\ disk = {}
          /\ \E n \in 1..MaxLines : \E text \in [1..n -> StatementLines] :
                pkgInput = [op |-> "extractImports", content |-> text]
    /\ pkgResult = <<>>
    /\ pc = "idle"
    /\ unreadable = {}
    /\ content = <<>>
    /\ scanOrder = <<>>
    /\ importGraph = <<>>
    /\ visited = {}
    /\ recursionStack = {}
    /\ path = <<>>
    /\ circularImports = <<>>
    /\ frames = <<>>
    /\ rootIdx = 1
    /\ usedFiles = {}
    /\ deadFiles = <<>>
    /\ fileIdx = 1
    /\ entries = <<>>
    /\ failing = {}
    /\ scanFrames = <<>>
    /\ manifest = Null
    /\ loadedPackageJson = Null
    /\ analysis = Null
    /\ NoProviderNoRetry
    /\ earlier = Null

NextFn ==
    \/ ResolveImportPath
    \/ ExtractImports

\* The resolver and the extractor, each applied to drawn arguments.
SpecFn == InitFn /\ [][NextFn]_vars

-----------------------------------------------------------------------------
(* A project with every kind of reference, analysed, repaired, analysed    *)

\* The lines of a.js: blank, or a require of "./b", of "./a" (itself), of
\* "/p/b" (b.js by its absolute path), of "./x" (no such file) or of the
\* package "b".
GraphLinesA ==
    { blankLine,
      requireLine(<<".", "/", "b">>),
      requireLine(<<".", "/", "a">>),
      requireLine(ProjectRoot \o <<"/", "b">>),
      requireLine(<<".", "/", "x">>),
      requireLine(<<"b">>) }

\* The texts of b.js: a blank line, or an import of "./a" or of "/p/a".
GraphTextsB ==
    { <<blankLine>>,
      <<importLine(<<".", "/", "a">>)>>,
      <<importLine(ProjectRoot \o <<"/", "a">>)>> }

\* The texts a file may hold: a.js up to MaxLines lines.
GraphTexts(f) ==
    IF f = FileA THEN UNION {[1..n -> GraphLinesA] : n \in 1..MaxLines}
    ELSE GraphTextsB

\* No call has been made before.
NoCall == [op |-> "none"]

\* The value the method that has just returned has returned.
returned ==
    IF pc = "deadDone" THEN deadFiles
    ELSE IF pc = "cyclesDone" THEN circularImports
    ELSE pkgResult

\* Between two calls the files that could not be read become readable and
\* empty (the text "", which is one line without a reference); what the
\* call before has returned is kept for comparison.
Repair ==
    /\ pc \in {"sourceDone", "deadDone", "cyclesDone"}
    /\ earlier.op = "none"
    /\ unreadable # {}
    /\ earlier' = [op |-> pc, result |-> returned, repaired |-> Cardinality(unreadable)]
    /\ unreadable' = {}
    /\ content' = [f \in disk |-> IF f \in unreadable THEN <<blankLine>> ELSE content[f]]
    /\ pc' = "idle"
    /\ UNCHANGED <<queryVars, retryVars>>
    /\ UNCHANGED <<disk, scanOrder, manifest, loadedPackageJson, analysis,
                   cycleVars, deadVars, pkgVars, scanVars>>

InitGraph ==
    /\ disk \in {{FileA}, {FileA, FileB}}
    /\ unreadable \in SUBSET disk
    /\ content \in [disk -> UNION {GraphTexts(f) : f \in disk} \cup {<<>>}]
    /\ \A f \in disk : IF f \in unreadable THEN content[f] = <<>>
                       ELSE content[f] \in GraphTexts(f)
    /\ scanOrder \in Orders(disk)
    /\ earlier = NoCall
    /\ pc = "idle"
    /\ importGraph = <<>>
    /\ visited = {}
    /\ recursionStack = {}
    /\ path = <<>>
    /\ circularImports = <<>>
    /\ frames = <<>>
    /\ rootIdx = 1
    /\ usedFiles = {}
    /\ deadFiles = <<>>
    /\ fileIdx = 1
    /\ pkgInput = <<>>
    /\ pkgResult = <<>>
    /\ entries = <<>>
    /\ failing = {}
    /\ scanFrames = <<>>
    /\ manifest = Null
    /\ loadedPackageJson = Null
    /\ analysis = Null
    /\ NoProviderNoRetry

\* analyzeSourceFiles, detectCircularImports or detectDeadFiles is called and
\* runs to its end; the unreadable files may then be repaired and a method
\* called again.
NextGraph ==
    \/ AnalyzeSourceFiles
    \/ AnalyzeSourceFile
    \/ AnalyzeSourceFilesReturn
    \/ DetectCircularImports
    \/ CycleRoot
    \/ DfsImport
    \/ DfsReturn
    \/ CycleFinish
    \/ DetectDeadFiles
    \/ DeadScanFile
    \/ DeadBuildDone
    \/ DeadSweepFile
    \/ DeadFinish
    \/ Repair

SpecGraph == InitGraph /\ [][NextGraph]_vars

-----------------------------------------------------------------------------
(* getSourceFiles and scanDirectory                                        *)

\* this.sourceExtensions
sourceExtensions ==
    { <<".", "j", "s">>, <<".", "t", "s">>, <<".", "m", "j", "s">>, <<".", "j", "s", "x">>, <<".", "t", "s", "x">> }

\* this.ignorePatterns
ignorePatterns ==
    { <<"n", "o", "d", "e", "_", "m", "o", "d", "u", "l", "e", "s">>,
      <<".", "g", "i", "t">>, <<"d", "i", "s", "t">>, <<"b", "u", "i", "l", "d">>,
      <<"c", "o", "v", "e", "r", "a", "g", "e">>,
      <<".", "n", "e", "x", "t">>, <<".", "n", "u", "x", "t">>,
      <<".", "o", "u", "t", "p", "u", "t">> }

\* String.prototype.includes
includes(s, t) ==
    \E i \in 1..(Len(s) - Len(t) + 1) : SubSeq(s, i, i + Len(t) - 1) = t

\* The capital letters and the small letters, in the same order.
upperCase ==
    <<"A", "B", "C", "D", "E", "F", "G", "H", "I", "J", "K", "L", "M", "N", "O", "P", "Q", "R", "S", "T", "U", "V", "W", "X", "Y", "Z">>

lowerCase ==
    <<"a", "b", "c", "d", "e", "f", "g", "h", "i", "j", "k", "l", "m", "n", "o", "p", "q", "r", "s", "t", "u", "v", "w", "x", "y", "z">>

\* String.prototype.toLowerCase
toLowerCase(s) ==
    [i \in 1..Len(s) |->
        IF \E k \in 1..Len(upperCase) : upperCase[k] = s[i]
        THEN lowerCase[CHOOSE k \in 1..Len(upperCase) : upperCase[k] = s[i]]
        ELSE s[i]]

\* path.extname of a file name: from its last "." on, and "" when it has no
\* "." or only the one it starts with.
path_extname(name) ==
    LET i == lastIndexOf(name, ".")
    IN  IF i <= 1 THEN <<>> ELSE SubSeq(name, i, Len(name))

\* stat.isDirectory()
isDirectory(fullPath) == fullPath \in DOMAIN entries

\* stat.isFile()
isFile(fullPath) == fullPath \in disk

\* fs.stat(fullPath) throws: the entry is a file that cannot be examined.
statThrows(fullPath) == fullPath \in failing /\ ~isDirectory(fullPath)

\* fs.readdir(dir) throws: the directory cannot be listed.
readdirThrows(dir) == dir \in failing

\* A variant of ignored that skips a directory only when its name is an
\* ignore pattern.
ignored_exactName(item) == item \in ignorePatterns

\* this.ignorePatterns.some(pattern => item.includes(pattern))
ignored(item) == \E pattern \in ignorePatterns : includes(item, pattern)

\* The error reaches the catch of getSourceFiles, which warns and returns
\* the files collected so far.
scanAborts ==
    /\ pc' = "scanDone"
    /\ scanFrames' = <<>>
    /\ UNCHANGED scanOrder

\* getSourceFiles() (and getAllFiles(), which is the same code): the array
\* is empty and scanDirectory is called on the project root.
GetSourceFiles ==
    /\ pc = "idle"
    /\ scanOrder' = <<>>
    /\ IF readdirThrows(ProjectRoot)
       THEN pc' = "scanDone" /\ scanFrames' = <<>>
       ELSE pc' = "scan" /\ scanFrames' = <<[dir |-> ProjectRoot, next |-> 1]>>
    /\ UNCHANGED <<queryVars, retryVars>>
    /\ UNCHANGED <<disk, unreadable, content, entries, failing,
                   cycleVars, deadVars, pkgVars, runVars>>

\* One iteration of `for (const item of items)` in the innermost call of
\* scanDirectory: a directory that is not ignored is scanned, a file with a
\* source extension is pushed; a stat or readdir that throws ends the scan.
ScanItem ==
    /\ pc = "scan"
    /\ scanFrames # <<>>
    /\ LET top == scanFrames[Len(scanFrames)]
       IN  /\ top.next <= Len(entries[top.dir])
           /\ LET item     == entries[top.dir][top.next]
                  fullPath == path_join(top.dir, item)
                  advanced == [scanFrames EXCEPT ![Len(scanFrames)].next = top.next + 1]
              IN  IF statThrows(fullPath) THEN scanAborts
                  ELSE IF isDirectory(fullPath)
                  THEN IF ignored(item)
                       THEN scanFrames' = advanced /\ UNCHANGED <<pc, scanOrder>>
                       ELSE IF readdirThrows(fullPath) THEN scanAborts
                       ELSE /\ scanFrames' = Append(advanced, [dir |-> fullPath, next |-> 1])
                            /\ UNCHANGED <<pc, scanOrder>>
                  ELSE IF isFile(fullPath)
                          /\ toLowerCase(path_extname(item)) \in sourceExtensions
                  THEN /\ scanOrder' = Append(scanOrder, fullPath)
                       /\ scanFrames' = advanced
                       /\ UNCHANGED pc
                  ELSE scanFrames' = advanced /\ UNCHANGED <<pc, scanOrder>>
    /\ UNCHANGED <<queryVars, retryVars>>
    /\ UNCHANGED <<disk, unreadable, content, entries, failing,
                   cycleVars, deadVars, pkgVars, runVars>>

\* The innermost call of scanDirectory has gone through its items.
ScanReturn ==
    /\ pc = "scan"
    /\ scanFrames # <<>>
    /\ scanFrames[Len(scanFrames)].next > Len(entries[scanFrames[Len(scanFrames)].dir])
    /\ scanFrames' = SubSeq(scanFrames, 1, Len(scanFrames) - 1)
    /\ UNCHANGED <<queryVars, retryVars>>
    /\ UNCHANGED <<pc, project, entries, failing, cycleVars, deadVars, pkgVars, runVars>>

\* scanDirectory has returned to getSourceFiles, which returns files.
ScanFinish ==
    /\ pc = "scan"
    /\ scanFrames = <<>>
    /\ pc' = "scanDone"
    /\ UNCHANGED <<queryVars, retryVars>>
    /\ UNCHANGED <<project, scanVars, cycleVars, deadVars, pkgVars, runVars>>

\* Bound: the number of files in a scanned tree.
MaxFiles == 3

\* The files a scanned tree may hold: a.js, B.TS, c.md and dist.js in the
\* root, and a file in each of src, dist, dists, Dist and src/dist.
ScanFiles ==
    { ProjectRoot \o tl :
        tl \in { <<"/", "a", ".", "j", "s">>,
                 <<"/", "B", ".", "T", "S">>,
                 <<"/", "c", ".", "m", "d">>,
                 <<"/", "d", "i", "s", "t", ".", "j", "s">>,
                 <<"/", "s", "r", "c", "/", "d", ".", "j", "s", "x">>,
                 <<"/", "d", "i", "s", "t", "/", "e", ".", "j", "s">>,
                 <<"/", "d", "i", "s", "t", "s", "/", "f", ".", "j", "s">>,
                 <<"/", "D", "i", "s", "t", "/", "g", ".", "j", "s">>,
                 <<"/", "s", "r", "c", "/", "d", "i", "s", "t", "/", "h", ".", "j", "s">> } }

\* The directories of a tree that holds the files d: the project root and
\* every directory on the way to a file.
directoriesOf(d) ==
    {ProjectRoot} \cup
    UNION { { SubSeq(f, 1, i - 1) :
                i \in {j \in (Len(ProjectRoot) + 2)..Len(f) : f[j] = "/"} }
            : f \in d }

\* The names in directory dir of a tree that holds the files d.
childrenOf(dir, d) ==
    { split(SubSeq(f, Len(dir) + 2, Len(f)), "/")[1] :
        f \in {g \in d : isAncestorDirectory(dir, g)} }

\* The listings of the directories dirs of a tree that holds the files d:
\* every directory lists its children in some order.
RECURSIVE Listings(_, _)
Listings(dirs, d) ==
    IF dirs = {} THEN {<<>>}
    ELSE LET dir == CHOOSE x \in dirs : TRUE
         IN  { (dir :> o) @@ rest : o \in Orders(childrenOf(dir, d)),
                                    rest \in Listings(dirs \ {dir}, d) }

\* The trees: at most MaxFiles files, every directory listed in some order,
\* and at most one directory or file that cannot be read.
InitTree ==
    \E d \in {x \in SUBSET ScanFiles : Cardinality(x) <= MaxFiles} :
        /\ disk = d
        /\ entries \in Listings(directoriesOf(d), d)
        /\ \E x \in SUBSET (d \cup directoriesOf(d)) :
              Cardinality(x) <= 1 /\ failing = x

InitScan ==
    /\ InitTree
    /\ scanOrder = <<>>
    /\ scanFrames = <<>>
    /\ unreadable = {}
    /\ content = <<>>
    /\ pc = "idle"
    /\ importGraph = <<>>
    /\ visited = {}
    /\ recursionStack = {}
    /\ path = <<>>
    /\ circularImports = <<>>
    /\ frames = <<>>
    /\ rootIdx = 1
    /\ usedFiles = {}
    /\ deadFiles = <<>>
    /\ fileIdx = 1
    /\ pkgInput = <<>>
    /\ pkgResult = <<>>
    /\ manifest = Null
    /\ loadedPackageJson = Null
    /\ analysis = Null
    /\ NoProviderNoRetry
    /\ earlier = Null

NextScan ==
    \/ GetSourceFiles
    \/ ScanItem
    \/ ScanReturn
    \/ ScanFinish

\* getSourceFiles run on a tree.
SpecScan == InitScan /\ [][NextScan]_vars

-----------------------------------------------------------------------------
(* The import graph the claims speak of                                    *)

\* The files the scanner lists.
scanned == Range(scanOrder)

\* The import edges that leave f, in the order of its references: the files
\* its references that start with "." resolve to.  An unreadable file, an
\* external reference and an unresolved reference give no edge.
edgesOf(f) ==
    LET imports  == IF readable(f) THEN extractImports(content[f]) ELSE <<>>
        resolved == [i \in 1..Len(imports) |->
                        IF startsWith(imports[i], ".")
                        THEN resolveImportPath(f, imports[i])
                        ELSE Null]
    IN  SelectSeq(resolved, LAMBDA t : t # Null)

\* The import graph: for every scanned file, the edges that leave it.
edgeMap == [f \in scanned |-> edgesOf(f)]

\* f imports g in the graph E.
importsFile(E, f, g) == g \in Range(E[f])

\* The files with an outgoing edge.
filesWithEdges(E) == {f \in DOMAIN E : E[f] # <<>>}

\* The file reached from f along k first edges.
RECURSIVE follow(_, _, _)
follow(E, f, k) == IF k = 0 THEN f ELSE follow(E, E[f][1], k - 1)

\* The import graph is one simple cycle through the files with edges, of two
\* files or more, and holds no other edge: every such file has exactly one
\* edge, which stays among them, and following the edges from any of them
\* passes through all of them.
singleSimpleCycle(E) ==
    LET C == filesWithEdges(E)
    IN  /\ Cardinality(C) >= 2
        /\ \A f \in C : Len(E[f]) = 1 /\ E[f][1] \in C
        /\ \A f \in C : {follow(E, f, k) : k \in 1..Cardinality(C)} = C

\* The files reached from the files of S along import edges, S included.
RECURSIVE closure(_, _)
closure(E, S) ==
    LET n == S \cup UNION {Range(E[f]) : f \in S}
    IN  IF n = S THEN S ELSE closure(E, n)

\* The files reached from f along one import edge or more.
reachedFrom(E, f) == closure(E, Range(E[f]))

\* The import graph has no directed cycle and no self-loop.
acyclic(E) == \A f \in DOMAIN E : f \notin reachedFrom(E, f)

\* The directed simple cycles of the import graph, each as the sequence of
\* its files from one of them on (every rotation is listed).
simpleCycles(E) ==
    UNION { { c \in distinctSeqs(DOMAIN E, n) :
                \A i \in 1..n : importsFile(E, c[i], c[(i % n) + 1]) }
            : n \in 1..Cardinality(DOMAIN E) }

\* r is a rotation of c.
isRotation(r, c) ==
    /\ Len(r) = Len(c)
    /\ \E k \in 1..Len(c) : \A i \in 1..Len(c) : r[i] = c[((i + k - 1) % Len(c)) + 1]

-----------------------------------------------------------------------------
(* Claims on detectCircularImports                                         *)

\* C4: when the import graph is a single simple cycle of n >= 2 files with no
\* other local edge, detectCircularImports returns exactly one cycle, and
\* that cycle contains every one of the n files, whatever the scan order.
C4_SingleCycleReportedOnce ==
    pc = "cyclesDone" =>
        LET E == edgeMap
        IN  singleSimpleCycle(E)
                => /\ Len(circularImports) = 1
                   /\ Range(circularImports[1]) = filesWithEdges(E)

\* The case of C4: a cycle through all three files has been analysed, the
\* scanner having listed the subdirectory's index file first.
C4_Witness ==
    /\ pc = "cyclesDone"
    /\ scanOrder[1] = FileS
    /\ LET E == edgeMap
       IN  /\ Cardinality(filesWithEdges(E)) = Cardinality(Universe)
           /\ singleSimpleCycle(E)

\* C5: when the resolved import graph has no directed cycle and no self-loop,
\* detectCircularImports returns an empty list, for every scan order and
\* every order of the imports in a file.
C5_AcyclicGivesNoCycle ==
    (pc = "cyclesDone" /\ circularImports # <<>>) => ~acyclic(edgeMap)

\* The case of C5: the analysis of an acyclic graph is over, in which a file
\* was reached a second time after it had left the recursion stack.
C5_Witness ==
    /\ pc = "cyclesDone"
    /\ scanned = Universe
    /\ LET E == edgeMap
       IN  /\ acyclic(E)
           /\ \E f, g, h \in scanned :
                 /\ f # g /\ g # h /\ f # h
                 /\ E[f] = <<g, h>>
                 /\ importsFile(E, g, h)

\* C6, the shape of a cycle of the returned list: at least two elements, the
\* first and the last the same file, no other file twice, each element
\* importing the one that follows it.
cyclesWellFormed ==
    (pc = "cyclesDone" /\ circularImports # <<>>) =>
        LET E == edgeMap
        IN  \A i \in 1..Len(circularImports) :
                LET c == circularImports[i]
                IN  /\ Len(c) >= 2
                    /\ c[1] = c[Len(c)]
                    /\ \A j, k \in 1..(Len(c) - 1) : c[j] = c[k] => j = k
                    /\ \A j \in 1..(Len(c) - 1) : importsFile(E, c[j], c[j + 1])

\* C6, how a cycle is reported: a step that changes the list appends one
\* cycle, which is the suffix of the path from the first occurrence of the
\* target of the reference being processed, with that target appended.
cycleIsPathSuffix ==
    circularImports' # circularImports =>
        /\ frames # <<>>
        /\ LET top    == frames[Len(frames)]
               target == resolveImportPath(top.file, importsOf(top.file)[top.next])
           IN  \E k \in 1..Len(path) :
                  /\ path[k] = target
                  /\ \A j \in 1..(k - 1) : path[j] # target
                  /\ circularImports' =
                        Append(circularImports, Append(SubSeq(path, k, Len(path)), target))

\* C6: every reported cycle has at least two elements, starts and ends with
\* the same file, repeats no other file, follows import edges, and is the
\* suffix of the DFS path from the first occurrence of the back-edge target,
\* with that target appended.
C6_CycleShape == [](cyclesWellFormed) /\ [][cycleIsPathSuffix]_vars

\* The case of C6: with three files on the traversal path, the cycle just
\* reported starts at the second one, a proper suffix of the path, closed.
C6_Witness ==
    /\ pc = "cycles"
    /\ Len(path) = 3
    /\ circularImports # <<>>
    /\ circularImports[Len(circularImports)] = <<path[2], path[3], path[2]>>

\* C7: a file that imports itself, directly or through a reference that
\* resolves to its own path, makes detectCircularImports report <<f, f>>.
C7_SelfImportReported ==
    pc = "cyclesDone" =>
        LET E == edgeMap
        IN  \A f \in scanned :
                importsFile(E, f, f) => <<f, f>> \in Range(circularImports)

\* The case of C7: the index file of the subdirectory imports "./", which
\* resolves to itself, and the analysis is over.
C7_Witness ==
    /\ pc = "cyclesDone"
    /\ FileS \in scanned
    /\ <<".", "/">> \in Range(extractImports(content[FileS]))
    /\ FileS \in Range(edgesOf(FileS))

\* C8: the list returned by detectCircularImports never holds the same cycle
\* twice, also when a file holds several references to the same target.
C8_NoCycleTwice ==
    \A i, j \in 1..Len(circularImports) :
        circularImports[i] = circularImports[j] => i = j

\* C9: for every directed simple cycle of import edges among the scanned
\* files, the returned list contains that cycle, as some rotation of its
\* file sequence closed by its first file.
C9_AllCyclesReported ==
    pc = "cyclesDone" =>
        \A c \in simpleCycles(edgeMap) :
            \E n \in 1..Len(circularImports) :
                LET r == circularImports[n]
                IN  /\ r[Len(r)] = r[1]
                    /\ isRotation(SubSeq(r, 1, Len(r) - 1), c)

\* C9 as amended: every directed simple cycle of import edges among the
\* scanned files has one of its edges u -> v as the closing edge of a
\* reported cycle, that is a reported cycle ends with u, v.
C9_EveryCycleHasReportedBackEdge ==
    pc = "cyclesDone" =>
        \A c \in simpleCycles(edgeMap) :
            \E i \in 1..Len(c), n \in 1..Len(circularImports) :
                LET r == circularImports[n]
                IN  /\ r[Len(r) - 1] = c[i]
                    /\ r[Len(r)] = c[(i % Len(c)) + 1]

\* The case of C9: the analysis is over and a simple cycle of the graph is
\* not in the list, in any rotation.
C9_Witness ==
    /\ pc = "cyclesDone"
    /\ \E c \in simpleCycles(edgeMap) :
          \A n \in 1..Len(circularImports) :
              Range(circularImports[n]) # Range(c)

-----------------------------------------------------------------------------
(* Claims on detectDeadFiles                                               *)

\* String.prototype.endsWith.
endsWith(s, t) == Len(s) >= Len(t) /\ SubSeq(s, Len(s) - Len(t) + 1, Len(s)) = t

\* The file name of f, in whatever directory f lies, is an entry-point name.
hasEntryName(f) == \E n \in entryPoints : endsWith(f, <<"/">> \o n)

\* Some scanned file imports f.
imported(E, f) == \E g \in DOMAIN E : importsFile(E, g, f)

C3_EntryAliveUnimportedDead ==
    pc = "deadDone" =>
        LET E == edgeMap
        IN  \A f \in scanned :
                /\ hasEntryName(f) => f \notin Range(deadFiles)
                /\ (~hasEntryName(f) /\ ~imported(E, f)) => f \in Range(deadFiles)

\* The case of C3: an entry point in a subdirectory with no edge to it or
\* from it and a module that nothing imports have been swept.
C3_Witness ==
    /\ pc = "deadDone"
    /\ scanned = Universe
    /\ LET E == edgeMap
       IN  E[FileS] = <<>> /\ ~imported(E, FileS) /\ ~imported(E, FileA)
    /\ FileS \notin Range(deadFiles)
    /\ FileA \in Range(deadFiles)

-----------------------------------------------------------------------------
(* Claims on analyzeFile and compareDependencies                           *)

\* The package a reference names: the first two "/"-delimited segments
\* joined by "/" when it starts with "@", the first segment alone otherwise.
packageOf(ref) ==
    LET segs == split(ref, "/")
    IN  IF startsWith(ref, "@") /\ Len(segs) >= 2
        THEN segs[1] \o <<"/">> \o segs[2]
        ELSE segs[1]

\* The references the two shapes capture in the lines of a text.
capturedIn(lines) ==
    ({lines[i].imp : i \in 1..Len(lines)} \cup {lines[i].req : i \in 1..Len(lines)})
        \ {NoMatch}

\* A reference is external: it starts neither with "." nor with "/".
isExternal(ref) == ~startsWith(ref, ".") /\ ~startsWith(ref, "/")

\* C1: for every external reference found by analyzeFile, the package name
\* added to usedPackages is the first two "/"-delimited segments joined by
\* "/" when the reference starts with "@", and the first segment alone
\* otherwise.
C1_ExternalPackageName ==
    pc = "analyzed" =>
        Range(pkgResult.usedPackages) =
            {packageOf(r) : r \in {x \in capturedIn(pkgInput.content) : isExternal(x)}}

\* The names the manifest declares: the keys of its three fields, an absent
\* field counting as empty.
declaredNames(packageJson) == UNION {Range(packageJson[x]) : x \in DOMAIN packageJson}

\* No element occurs twice in the sequence.
noDuplicates(seq) == \A i, j \in 1..Len(seq) : seq[i] = seq[j] => i = j

\* C10: compareDependencies returns unusedDependencies equal, as a set, to
\* declared minus used and missingDependencies equal to used minus declared,
\* declared being the union of the keys of dependencies, devDependencies and
\* peerDependencies; neither list contains a name twice.
C10_CompareIsSetDifference ==
    pc = "compared" =>
        LET declared == declaredNames(pkgInput.packageJson)
            used     == Range(pkgInput.usedPackages)
        IN  /\ Range(pkgResult.unusedDependencies) = declared \ used
            /\ Range(pkgResult.missingDependencies) = used \ declared
            /\ noDuplicates(pkgResult.unusedDependencies)
            /\ noDuplicates(pkgResult.missingDependencies)

\* The case of C10: declared {a, b, c}, with b declared in two fields and one
\* field absent, and used {b, c, d} have been compared.
C10_Witness ==
    /\ pc = "compared"
    /\ pkgInput.packageJson =
           [dependencies |-> <<PkgA, PkgB>>, devDependencies |-> <<PkgB, PkgC>>]
    /\ Range(pkgInput.usedPackages) = {PkgB, PkgC, PkgD}
    /\ pkgResult.unusedDependencies = <<PkgA>>
    /\ pkgResult.missingDependencies = <<PkgD>>

-----------------------------------------------------------------------------
(* Claims on analyzeProject                                                *)

\* The reference r names the package d or a sub-path of it.
refersTo(r, d) ==
    \/ r = d
    \/ /\ Len(r) > Len(d)
       /\ SubSeq(r, 1, Len(d)) = d
       /\ r[Len(d) + 1] = "/"

\* The references captured in the readable scanned files.
referencedInProject ==
    UNION {capturedIn(content[f]) : f \in {g \in scanned : readable(g)}}

\* C11: in analyzeProject, a package that package.json declares and that a
\* readable scanned file references, by its name or by a sub-path of it, is
\* not in unusedDependencies, and no name derived from that reference is in
\* missingDependencies.
C11_DeclaredAndReferencedIsNeitherUnusedNorMissing ==
    pc = "projectDone" =>
        \A d \in declaredNames(pkgResult.packageJson) :
            \A r \in referencedInProject :
                refersTo(r, d) =>
                    /\ d \notin Range(pkgResult.dependencyComparison.unusedDependencies)
                    /\ \A m \in Range(pkgResult.dependencyComparison.missingDependencies) :
                           ~refersTo(r, m)

-----------------------------------------------------------------------------
(* Claims on resolveImportPath                                             *)

\* The path a reference of a call names: the reference resolved against the
\* directory of the referencing file.
basePath(call) == path_resolve(path_dirname(call.sourceFile), call.importPath)

\* The reference carries one of the extensions.
carriesExtension(ref) == \E i \in 1..Len(extensions) : endsWith(ref, extensions[i])

\* C12: when a local reference already carries an extension and that exact
\* path exists as a file, resolveImportPath returns that file itself,
\* whatever else exists.
C12_ExactPathReturned ==
    (/\ pc = "resolved"
     /\ carriesExtension(pkgInput.importPath)
     /\ basePath(pkgInput) \in disk)
        => pkgResult = basePath(pkgInput)

\* The candidate order of C13 for the base path p.
candidateOrder(p) ==
    << p \o <<".", "j", "s">>,
       p \o <<".", "t", "s">>,
       p \o <<".", "j", "s", "x">>,
       p \o <<".", "t", "s", "x">>,
       p \o <<".", "m", "j", "s">>,
       p \o <<"/", "i", "n", "d", "e", "x", ".", "j", "s">>,
       p \o <<"/", "i", "n", "d", "e", "x", ".", "t", "s">>,
       p \o <<"/", "i", "n", "d", "e", "x", ".", "j", "s", "x">>,
       p \o <<"/", "i", "n", "d", "e", "x", ".", "t", "s", "x">>,
       p \o <<"/", "i", "n", "d", "e", "x", ".", "m", "j", "s">> >>

\* C13: resolveImportPath returns the first path that exists in the order
\* p.js, p.ts, p.jsx, p.tsx, p.mjs, p/index.js, p/index.ts, p/index.jsx,
\* p/index.tsx, p/index.mjs, and null when none of them exists.
C13_FirstExistingCandidate ==
    pc = "resolved" =>
        LET c    == candidateOrder(basePath(pkgInput))
            hits == {i \in 1..Len(c) : fs_existsSync(c[i])}
        IN  IF hits = {} THEN pkgResult = Null
            ELSE pkgResult = c[CHOOSE i \in hits : \A j \in hits : i <= j]

\* The case of C13: "./u" with only u/index.ts on disk has resolved to it.
C13_Witness ==
    /\ pc = "resolved"
    /\ pkgInput.importPath = <<".", "/", "u">>
    /\ disk = {ProjectRoot \o <<"/", "u", "/", "i", "n", "d", "e", "x", ".", "t", "s">>}
    /\ pkgResult = ProjectRoot \o <<"/", "u", "/", "i", "n", "d", "e", "x", ".", "t", "s">>

-----------------------------------------------------------------------------
(* Claims on the classification of references                              *)

\* A reference is local: it starts with "." or with "/".
isLocal(ref) == startsWith(ref, ".") \/ startsWith(ref, "/")

\* The references captured in the readable scanned file f, in their order.
referencesOf(f) == IF readable(f) THEN extractImports(content[f]) ELSE <<>>

\* The edges that leave f when every local reference that resolves forms
\* one, in the order of the references.
localEdgesOf(f) ==
    LET imports  == referencesOf(f)
        resolved == [i \in 1..Len(imports) |->
                        IF isLocal(imports[i])
                        THEN resolveImportPath(f, imports[i])
                        ELSE Null]
    IN  SelectSeq(resolved, LAMBDA t : t # Null)

\* The import graph with an edge for every local reference that resolves.
localEdgeMap == [f \in scanned |-> localEdgesOf(f)]

\* C14: a reference is local exactly when it starts with "." or "/".  A
\* local reference is never added to usedPackages; the local references
\* that resolve, those that begin with "/" among them, are exactly the
\* edges of the dead-file analysis and of the cycle analysis, and no other
\* reference forms an edge.
C14_LocalIffDotOrSlash ==
    /\ pc = "sourceDone" =>
           Range(pkgResult.usedPackages) =
               { mainPackage(r) :
                   r \in {x \in referencedInProject : ~isLocal(x)} }
    /\ pc = "deadDone" =>
           usedFiles = UNION {Range(localEdgesOf(f)) : f \in scanned}
    /\ pc = "cyclesDone" =>
           LET E == localEdgeMap
           IN  /\ \A f \in scanned :
                      importsFile(E, f, f) => <<f, f>> \in Range(circularImports)
               /\ \A n \in 1..Len(circularImports) :
                      LET c == circularImports[n]
                      IN  \A j \in 1..(Len(c) - 1) : importsFile(E, c[j], c[j + 1])

-----------------------------------------------------------------------------
(* Claims on getSourceFiles                                                *)

\* The names on the way from the project root to the file f: its ancestor
\* directories below the root, then its own name.
namesBelowRoot(f) == split(SubSeq(f, Len(ProjectRoot) + 2, Len(f)), "/")

\* The name, lowercased, is a non-empty stem followed by a source extension.
hasSourceExtension(name) ==
    \E ext \in sourceExtensions :
        Len(name) > Len(ext) /\ endsWith(toLowerCase(name), ext)

\* An ancestor directory of f below the root has a name that contains an
\* ignore pattern.
underIgnoredDirectory(f) ==
    LET names == namesBelowRoot(f)
    IN  \E i \in 1..(Len(names) - 1) :
            \E pattern \in ignorePatterns : includes(names[i], pattern)

\* The regular files getSourceFiles is to return.
sourceFilesOfTree ==
    {f \in disk : hasSourceExtension(path_basename(f)) /\ ~underIgnoredDirectory(f)}

\* C15: when every directory and file can be read, getSourceFiles returns
\* exactly the regular files under the project root whose lowercased
\* extension is a source extension and none of whose ancestor directories
\* below the root has a name containing an ignore pattern, each once.
C15_ScanReturnsSourceFiles ==
    (pc = "scanDone" /\ failing = {}) =>
        /\ Range(scanOrder) = sourceFilesOfTree
        /\ noDuplicates(scanOrder)

\* The case of C15: a tree with a file in dists, whose name contains "dist",
\* one in Dist and one with the extension .TS has been scanned.
C15_Witness ==
    /\ pc = "scanDone"
    /\ failing = {}
    /\ disk = { ProjectRoot \o <<"/", "d", "i", "s", "t", "s", "/", "f", ".", "j", "s">>,
                ProjectRoot \o <<"/", "D", "i", "s", "t", "/", "g", ".", "j", "s">>,
                ProjectRoot \o <<"/", "B", ".", "T", "S">> }
    /\ Range(scanOrder) = { ProjectRoot \o <<"/", "D", "i", "s", "t", "/", "g", ".", "j", "s">>,
                            ProjectRoot \o <<"/", "B", ".", "T", "S">> }

\* The directory that is lost when x cannot be read: x when x is a
\* directory, the directory that holds x when x is a file.
lostDirectory(x) == IF isDirectory(x) THEN x ELSE path_dirname(x)

\* C16: when a subdirectory cannot be read (readdir or stat fails inside
\* it), getSourceFiles still returns every matching file outside that
\* subdirectory, whatever the order of the listings.
C16_ScanSkipsOnlyUnreadableSubtree ==
    pc = "scanDone" =>
        \A f \in sourceFilesOfTree :
            (\A x \in failing : ~isAncestorDirectory(lostDirectory(x), f))
                => f \in Range(scanOrder)

-----------------------------------------------------------------------------
(* Claims on files that cannot be read                                     *)

\* The method that has just returned is the one that was called before the
\* unreadable files were made readable and empty.
calledAgain == pc \in {"sourceDone", "deadDone", "cyclesDone"} /\ earlier.op = pc

\* C17: with a scanned file whose read fails, analyzeSourceFiles,
\* detectCircularImports and detectDeadFiles each return what they return
\* when that file is readable and empty.
C17_UnreadableAsEmptyFile ==
    calledAgain => earlier.result = returned

\* C17 as amended: detectCircularImports and detectDeadFiles return what they
\* return when the file is readable and empty, and so does analyzeSourceFiles
\* but for totalLines, which is lower by one for every such file.
C17_UnreadableAsEmptyFileButForLines ==
    calledAgain =>
        IF pc = "sourceDone"
        THEN returned = [earlier.result EXCEPT !.totalLines = @ + earlier.repaired]
        ELSE returned = earlier.result

\* The case of C17: b.js could not be read while a.js, which references it
\* and a package, could; analyzeSourceFiles was called, b.js became readable
\* and empty, and analyzeSourceFiles was called again.
C17_Witness ==
    /\ pc = "sourceDone"
    /\ earlier.op = "sourceDone"
    /\ earlier.repaired = 1
    /\ disk = {FileA, FileB}
    /\ content[FileB] = <<blankLine>>
    /\ content[FileA] = <<requireLine(<<".", "/", "b">>), requireLine(<<"b">>)>>
    /\ pkgResult.totalLines = 3
    /\ earlier.result.totalLines = 2

-----------------------------------------------------------------------------
(* Claims on extractImports                                                *)

\* What the leftmost statement of a shape on a line captures, as a list of
\* one reference, or of none when the line has no statement of the shape.
leftmost(statements, shape) ==
    LET at == {i \in 1..Len(statements) : statements[i].shape = shape}
    IN  IF at = {} THEN <<>>
        ELSE <<statements[CHOOSE i \in at : \A j \in at : i <= j].ref>>

\* What a line contributes: its import-style capture, then its
\* require-style capture.
contributionOf(statements) ==
    leftmost(statements, "import") \o leftmost(statements, "require")

\* The number of references the first n lines of a text contribute.
RECURSIVE contributedBy(_, _)
contributedBy(text, n) ==
    IF n = 0 THEN 0
    ELSE contributedBy(text, n - 1) + Len(contributionOf(text[n]))

\* C18: extractImports returns, for the lines taken top to bottom, at most
\* one import-style capture followed by at most one require-style capture
\* per line, the first match of each shape, concatenated in line order; a
\* text with no matching line gives the empty list.
C18_ExtractedInLineOrder ==
    pc = "extracted" =>
        LET text == pkgInput.content
        IN  /\ Len(pkgResult) = contributedBy(text, Len(text))
            /\ \A i \in 1..Len(text) :
                   \A k \in 1..Len(contributionOf(text[i])) :
                       pkgResult[contributedBy(text, i - 1) + k] = contributionOf(text[i])[k]
            /\ (\A i \in 1..Len(text) : text[i] = <<>>) => pkgResult = <<>>

\* The case of C18: a line without a statement, then a line on which a
\* require of x stands before an import of "./y", have been extracted.
C18_Witness ==
    /\ pc = "extracted"
    /\ pkgInput.op = "extractImports"
    /\ pkgInput.content = << <<>>, <<requireStatement(RefX), importStatement(RefY)>> >>
    /\ pkgResult = <<RefY, RefX>>

-----------------------------------------------------------------------------
(* Claims on errors                                                        *)

\* C19: a missing or malformed package.json does not abort an analysis run
\* before the files are scanned: the run still reports the analysis of the
\* source files.
C19_ManifestErrorKeepsSourceAnalysis ==
    pc \in {"threw", "projectDone"} =>
        "sourceAnalysis" \in DOMAIN pkgResult

\* C19 as amended: with a missing or malformed package.json analyzeProject
\* throws before it scans or analyses a file and reports nothing but the
\* error; detectDeadFiles and detectCircularImports, which never read
\* package.json, return their results whatever its state.
C19_ManifestErrorAbortsAnalyzeProject ==
    /\ ~packageJsonLoads => pc \notin {"projectFiles", "projectDone"}
    /\ pc = "threw" => DOMAIN pkgResult = {"error"}
    /\ pc = "projectDone" =>
           pkgResult.sourceAnalysis.totalFiles = Len(getSourceFiles)
    /\ pc = "deadDone" =>
           Range(deadFiles) =
               {f \in scanned : ~hasEntryName(f) /\ ~imported(edgeMap, f)}
    /\ pc = "cyclesDone" =>
           \A f \in scanned :
               importsFile(edgeMap, f, f) => <<f, f>> \in Range(circularImports)

\* The case of C19: package.json is not parsable, a.js holds a reference to
\* a package, and analyzeProject has thrown.
C19_Witness ==
    /\ pc = "threw"
    /\ manifest.state = "malformed"
    /\ readable(FileA)
    /\ content[FileA] = <<requireLine(NameAb)>>

\* The local references of the readable scanned file f that resolve to no
\* existing file.
unresolvedIn(f) ==
    {r \in Range(referencesOf(f)) : isLocal(r) /\ resolveImportPath(f, r) = Null}

\* The path the reference r of the file f names.
namedBy(f, r) == path_resolve(path_dirname(f), r)

\* An unresolved reference of a scanned file forms no edge: what it names is
\* not in the used-file set and is not visited by the cycle traversal.
unresolvedFormsNoEdge ==
    \A f \in scanned : \A r \in unresolvedIn(f) :
        /\ pc = "deadDone" => namedBy(f, r) \notin usedFiles
        /\ pc = "cyclesDone" => namedBy(f, r) \notin visited

\* An unresolved reference does not stop the processing: the used-file set
\* holds the target of every reference that forms an edge, and the cycle
\* traversal has visited every scanned file, and existing files only, and
\* reported every self-import.
unresolvedStopsNothing ==
    /\ pc = "deadDone" => usedFiles = UNION {Range(edgesOf(f)) : f \in scanned}
    /\ pc = "cyclesDone" =>
           /\ scanned \subseteq visited
           /\ visited \subseteq disk
           /\ \A f \in scanned :
                  importsFile(edgeMap, f, f) => <<f, f>> \in Range(circularImports)

-----------------------------------------------------------------------------
(* A project with an entry point and an ignored directory, and the two     *)
(* detectors called on it, twice                                           *)

FileI == <<"/", "p", "/", "i", "n", "d", "e", "x", ".", "j", "s">>

FileE == <<"/", "p", "/", "d", "i", "s", "t", "/", "e", ".", "j", "s">>

\* The files on disk: a.js and index.js in the project root and e.js in
\* the directory dist, which the scanner does not enter.
WalkDisk == {FileA, FileI, FileE}

\* The lines a file may hold.  a.js: a require of "./index", of "./a"
\* (itself), of "./dist/e" (a file that is not scanned) or of "./x" (no such
\* file); index.js: an import of "./a" or of the package "b".
WalkLinesOf(f) ==
    IF f = FileA
    THEN { requireLine(<<".", "/", "i", "n", "d", "e", "x">>),
           requireLine(<<".", "/", "a">>),
           requireLine(<<".", "/", "d", "i", "s", "t", "/", "e">>),
           requireLine(<<".", "/", "x">>) }
    ELSE { importLine(<<".", "/", "a">>), importLine(<<"b">>) }

\* The assignments of a text to every file of `files` that hold at most
\* `budget` references together.
RECURSIVE WalkContents(_, _)
WalkContents(files, budget) ==
    IF files = {} THEN {<<>>}
    ELSE LET f == CHOOSE x \in files : TRUE
         IN  UNION { { (f :> t) @@ rest : t \in [1..k -> WalkLinesOf(f)],
                                         rest \in WalkContents(files \ {f}, budget - k) }
                     : k \in 0..budget }

\* A project of at most `budget` references and unreadable files.  What the
\* scanner returns for the files on disk, see getSourceFiles: the files with
\* a source extension outside the ignored directories, in the order of the
\* directory listing.
InitWalkProject(budget) ==
    /\ disk = WalkDisk
    /\ unreadable \in {{}, {FileI}}
    /\ scanOrder \in Orders({f \in disk :
                               /\ toLowerCase(path_extname(path_basename(f))) \in sourceExtensions
                               /\ \A i \in 1..(Len(split(SubSeq(f, Len(ProjectRoot) + 2, Len(f)), "/")) - 1) :
                                      ~ignored(split(SubSeq(f, Len(ProjectRoot) + 2, Len(f)), "/")[i]) })
    /\ content \in { c @@ [f \in unreadable \cup {FileE} |-> <<>>] :
                       c \in WalkContents({FileA, FileI} \ unreadable,
                                          budget - Cardinality(unreadable)) }

\* The same method is called again on the same files: what the call before
\* has returned is kept for comparison.
CallAgain ==
    /\ pc \in {"deadDone", "cyclesDone"}
    /\ earlier.op = "none"
    /\ earlier' = [op |-> pc, result |-> returned, repaired |-> 0]
    /\ pc' = "idle"
    /\ UNCHANGED <<queryVars, retryVars>>
    /\ UNCHANGED <<project, manifest, loadedPackageJson, analysis,
                   cycleVars, deadVars, pkgVars, scanVars>>

\* No method has been called yet.
WalkStart ==
    /\ earlier = NoCall
    /\ pc = "idle"
    /\ importGraph = <<>>
    /\ visited = {}
    /\ recursionStack = {}
    /\ path = <<>>
    /\ circularImports = <<>>
    /\ frames = <<>>
    /\ rootIdx = 1
    /\ usedFiles = {}
    /\ deadFiles = <<>>
    /\ fileIdx = 1
    /\ pkgInput = <<>>
    /\ pkgResult = <<>>
    /\ entries = <<>>
    /\ failing = {}
    /\ scanFrames = <<>>
    /\ manifest = Null
    /\ loadedPackageJson = Null
    /\ analysis = Null
    /\ NoProviderNoRetry

InitWalk == InitWalkProject(MaxSize) /\ WalkStart

\* Bound: the size of a project on which termination is checked.
MaxRefs == 3

InitWalkFew == InitWalkProject(MaxRefs) /\ WalkStart

\* detectCircularImports or detectDeadFiles is called and runs to its end;
\* a method may then be called once more.
NextWalk ==
    \/ DetectCircularImports
    \/ CycleRoot
    \/ DfsImport
    \/ DfsReturn
    \/ CycleFinish
    \/ DetectDeadFiles
    \/ DeadScanFile
    \/ DeadBuildDone
    \/ DeadSweepFile
    \/ DeadFinish
    \/ CallAgain

SpecWalk == InitWalk /\ [][NextWalk]_vars

\* DfsImport can take a step: the innermost call has an import left.
DfsImportEnabled ==
    /\ pc = "cycles"
    /\ frames # <<>>
    /\ frames[Len(frames)].next <= Len(importsOf(frames[Len(frames)].file))

\* DeadScanFile can take a step: the first loop has a file left.
DeadScanFileEnabled == pc = "deadBuild" /\ fileIdx <= Len(getSourceFiles)

\* A method that has been called goes on running: the code of both methods
\* is sequential and waits for nothing but the reads of the files.  The
\* weak fairness of DfsImport and of DeadScanFile is written out, with the
\* condition under which each can take a step in the place of ENABLED.
WalkFairness ==
    /\ WF_vars(CycleRoot \/ DfsReturn \/ CycleFinish)
    /\ WF_vars(DeadBuildDone \/ DeadSweepFile \/ DeadFinish)
    /\ ([]<>(~DfsImportEnabled) \/ []<><<DfsImport>>_vars)
    /\ ([]<>(~DeadScanFileEnabled) \/ []<><<DeadScanFile>>_vars)

SpecWalkFair == InitWalkFew /\ [][NextWalk]_vars /\ WalkFairness

-----------------------------------------------------------------------------
(* Claims on the nodes of the import graph                                 *)

\* The files the two detectors hold as nodes: the keys of the import graph,
\* the files on the path, on the recursion stack, in visited, in a reported
\* cycle and in the used-file set.
graphNodes ==
    DOMAIN importGraph \cup Range(path) \cup recursionStack \cup visited
        \cup UNION {Range(circularImports[n]) : n \in 1..Len(circularImports)}
        \cup usedFiles

\* The paths resolveImportPath returns for the references of the scanned
\* files, which exist on disk.
resolvedOnDisk ==
    {t \in UNION { {resolveImportPath(f, r) : r \in Range(referencesOf(f))} : f \in scanned } :
        t # Null /\ fs_existsSync(t)}

\* C21: at every step of detectCircularImports and detectDeadFiles every
\* node is a file the scanner returned or a path resolveImportPath found on
\* disk; no node stands for an unresolved reference or for a package name.
C21_NodesAreScannedOrResolved ==
    graphNodes \subseteq (scanned \cup resolvedOnDisk)

\* The case of C21: a.js holds "./x", which resolves to nothing, and
\* "./dist/e", which resolves to a file the scanner does not return;
\* index.js refers to the package "b"; e.js has been visited and the
\* traversal is over.
C21_Witness ==
    /\ pc = "cyclesDone"
    /\ <<".", "/", "x">> \in Range(referencesOf(FileA))
    /\ <<"b">> \in Range(referencesOf(FileI))
    /\ FileE \in visited
    /\ FileE \notin scanned

-----------------------------------------------------------------------------
(* Claims on the order of the cycle detection                              *)

\* The import edges that leave the file f, scanned or not: a file that is
\* not scanned has no entry in the import graph.
walkEdges(f) == IF f \in scanned THEN edgesOf(f) ELSE <<>>

\* The depth-first search of the specification as a function of the scanner
\* order and of the texts: the walk [visited, path, cycles] after the search
\* from `file`, which follows the edges of a file in the order of its
\* references and reports the path from the first occurrence of a file met
\* on the path, closed by that file.
RECURSIVE searchFrom(_, _)
RECURSIVE searchAlong(_, _, _)
searchFrom(file, walk) ==
    IF file \in Range(walk.path)
    THEN [walk EXCEPT !.cycles =
             Append(@, Append(SubSeq(walk.path, indexOf(walk.path, file), Len(walk.path)), file))]
    ELSE IF file \in walk.visited THEN walk
    ELSE LET entered == [visited |-> walk.visited \cup {file},
                         path    |-> Append(walk.path, file),
                         cycles  |-> walk.cycles]
             left    == searchAlong(walkEdges(file), 1, entered)
         IN  [left EXCEPT !.path = SubSeq(@, 1, Len(@) - 1)]

searchAlong(edges, i, walk) ==
    IF i > Len(edges) THEN walk
    ELSE searchAlong(edges, i + 1, searchFrom(edges[i], walk))

\* The search from every file of `order` in turn that is not yet visited.
RECURSIVE searchRoots(_, _, _)
searchRoots(order, i, walk) ==
    IF i > Len(order) THEN walk
    ELSE searchRoots(order, i + 1,
                     IF order[i] \in walk.visited THEN walk ELSE searchFrom(order[i], walk))

\* The cycles in the order the specified search reports them.
cyclesInSearchOrder ==
    searchRoots(scanOrder, 1, [visited |-> {}, path |-> <<>>, cycles |-> <<>>]).cycles

\* C22: two calls of detectCircularImports on the same texts, the same files
\* on disk and the same scanner order return the same list of cycles in the
\* same order: the list the search reports that takes the roots in scanner
\* order and the edges of a file in the order of its references.
C22_CyclesInScannerAndTextOrder ==
    pc = "cyclesDone" =>
        /\ circularImports = cyclesInSearchOrder
        /\ earlier.op = "cyclesDone" => circularImports = earlier.result

\* The case of C22: index.js, listed first, imports a.js, which requires
\* "./index" and then itself; the second call has returned the two cycles
\* in that order.
C22_Witness ==
    /\ pc = "cyclesDone"
    /\ earlier.op = "cyclesDone"
    /\ scanOrder[1] = FileI
    /\ circularImports = << <<FileI, FileA, FileI>>, <<FileA, FileA>> >>

-----------------------------------------------------------------------------
(* Claims on the recursion stack and the path                              *)

\* The recursion stack holds the files of the path, and the path holds no
\* file twice.
stackIsPath ==
    /\ recursionStack = Range(path)
    /\ \A i, j \in 1..Len(path) : path[i] = path[j] => i = j

\* After detectCircularImports the recursion stack is empty and every
\* scanned file is visited.
walkedAll == pc = "cyclesDone" => (recursionStack = {} /\ scanned \subseteq visited)

\* A step in which the call that entered a file returns leaves that file in
\* visited, off the recursion stack and off the path.
returnLeavesFile ==
    Len(frames') < Len(frames) =>
        LET file == frames[Len(frames)].file
        IN  /\ file \in visited'
            /\ file \notin recursionStack'
            /\ file \notin Range(path')

\* C24: during the cycle search the recursion stack is the set of the files
\* of the path and the path holds no file twice; a file whose call returns
\* is visited and on neither of them; after detectCircularImports the
\* recursion stack is empty and every scanned file is visited.
C24_StackFollowsPath == [](stackIsPath /\ walkedAll) /\ [][returnLeavesFile]_vars

\* The case of C24: the call for a.js, made from index.js, has returned;
\* index.js is still on the path.
C24_Witness ==
    /\ pc = "cycles"
    /\ path = <<FileI>>
    /\ FileA \in visited
    /\ FileA \notin recursionStack
    /\ importsFile(edgeMap, FileI, FileA)

-----------------------------------------------------------------------------
(* Claims on termination                                                   *)

\* A step that pushes a file on the path pushes a file that was not
\* visited, and no step of a search takes a file out of visited: a file is
\* entered at most once in a call of detectCircularImports.
enteredOnce ==
    /\ Len(path') > Len(path) => path'[Len(path')] \notin visited
    /\ (pc = "cycles" /\ pc' = "cycles") => visited \subseteq visited'

\* C25: detectCircularImports and detectDeadFiles terminate on every finite
\* set of files, with cycles and self-loops among them; in the cycle search
\* a file is pushed on the path at most once, a visited file being never
\* entered again.
C25_DetectorsTerminate ==
    /\ [][enteredOnce]_vars
    /\ (pc = "cycles") ~> (pc = "cyclesDone")
    /\ (pc \in {"deadBuild", "deadSweep"}) ~> (pc = "deadDone")

\* The case of C25: a.js imports itself and index.js, index.js imports
\* a.js, and detectCircularImports has returned.
C25_Witness ==
    /\ pc = "cyclesDone"
    /\ importsFile(edgeMap, FileA, FileA)
    /\ importsFile(edgeMap, FileA, FileI)
    /\ importsFile(edgeMap, FileI, FileA)
    /\ visited = disk \ {FileE}

-----------------------------------------------------------------------------
(* Claims on the existence of a reported cycle                             *)

\* The resolved import graph over the files on disk.
walkEdgeMap == [f \in disk |-> walkEdges(f)]

\* C26: whenever the resolved import graph holds a directed cycle,
\* detectCircularImports returns a list that is not empty, whatever the
\* scanner order and whatever was reported before.
C26_CycleGivesReport ==
    (pc = "cyclesDone" /\ ~acyclic(walkEdgeMap)) => circularImports # <<>>

\* The case of C26: a.js, listed first, holds a reference that resolves to
\* nothing, one to a file that is not scanned and one to index.js, which
\* imports a.js; the cycle has been reported.
C26_Witness ==
    /\ pc = "cyclesDone"
    /\ scanOrder[1] = FileA
    /\ Len(referencesOf(FileA)) = 3
    /\ FileE \in visited
    /\ <<".", "/", "x">> \in Range(referencesOf(FileA))
    /\ ~acyclic(walkEdgeMap)
    /\ circularImports = << <<FileA, FileI, FileA>> >>

-----------------------------------------------------------------------------
(* Claims on the order in which analyzeSourceFiles takes the files         *)

\* The scanned files that can be read.
readableScanned == {f \in scanned : readable(f)}

\* The number of lines of the files of S together.
RECURSIVE linesOfAll(_)
linesOfAll(S) ==
    IF S = {} THEN 0
    ELSE LET f == CHOOSE x \in S : TRUE
         IN  analyzeFile(content[f], f).lines + linesOfAll(S \ {f})

\* What analyzeSourceFiles returns when it is given the files in the order
\* filePaths, from the i-th on, with `acc` for the files before.
RECURSIVE foldFiles(_, _, _)
foldFiles(filePaths, i, acc) ==
    IF i > Len(filePaths) THEN acc
    ELSE foldFiles(filePaths, i + 1, analyzeSourceFilesStep(acc, filePaths[i]))

\* C27: the usedPackages and imports sets analyzeSourceFiles returns are the
\* unions of the sets of the readable files, and totalLines the sum of their
\* lines; every permutation of filePaths gives the same two sets and the
\* same totalLines.
C27_FoldIsOrderIndependent ==
    pc = "sourceDone" =>
        /\ Range(pkgResult.usedPackages) =
               UNION {Range(analyzeFile(content[f], f).usedPackages) : f \in readableScanned}
        /\ Range(pkgResult.imports) =
               UNION {Range(analyzeFile(content[f], f).imports) : f \in readableScanned}
        /\ pkgResult.totalLines = linesOfAll(readableScanned)
        /\ \A o \in Orders(scanned) :
               LET other == foldFiles(o, 1, newAnalysis(o))
               IN  /\ Range(other.usedPackages) = Range(pkgResult.usedPackages)
                   /\ Range(other.imports) = Range(pkgResult.imports)
                   /\ other.totalLines = pkgResult.totalLines

\* The case of C27: b.js, which imports "./a", is taken before a.js, which
\* refers to the package "b" and to "./x"; the sets hold the references of
\* both files.
C27_Witness ==
    /\ pc = "sourceDone"
    /\ scanOrder = <<FileB, FileA>>
    /\ unreadable = {}
    /\ pkgResult.imports = << <<".", "/", "a">>, <<"b">>, <<".", "/", "x">> >>
    /\ pkgResult.usedPackages = << <<"b">> >>
    /\ pkgResult.totalLines = 3

-----------------------------------------------------------------------------
(* Claims on the figures of compareDependencies                            *)

\* C28: in the result of compareDependencies the unused and the missing
\* names are disjoint, no unused name is used, no missing name is declared,
\* and totalDependencies less the number of unused names equals
\* usedDependencies less the number of missing names: both are the number
\* of names declared and used.
C28_CompareFiguresAgree ==
    pc = "compared" =>
        LET declared == declaredNames(pkgInput.packageJson)
            used     == Range(pkgInput.usedPackages)
            unused   == pkgResult.unusedDependencies
            missing  == pkgResult.missingDependencies
        IN  /\ Range(unused) \cap Range(missing) = {}
            /\ Range(unused) \cap used = {}
            /\ Range(missing) \cap declared = {}
            /\ pkgResult.totalDependencies - Len(unused)
                   = pkgResult.usedDependencies - Len(missing)
            /\ pkgResult.totalDependencies - Len(unused)
                   = Cardinality(declared \cap used)

\* The case of C28: a and b are declared, b in two fields, b and c are used:
\* one name is unused, one is missing, one is declared and used.
C28_Witness ==
    /\ pc = "compared"
    /\ pkgInput.packageJson =
           [dependencies |-> <<PkgA, PkgB>>, devDependencies |-> <<PkgB>>]
    /\ pkgInput.usedPackages = <<PkgB, PkgC>>
    /\ pkgResult.unusedDependencies = <<PkgA>>
    /\ pkgResult.missingDependencies = <<PkgC>>
    /\ pkgResult.totalDependencies = 2
    /\ pkgResult.usedDependencies = 2

-----------------------------------------------------------------------------
(* Claims on the files detectDeadFiles may report                          *)

\* C29: every file detectDeadFiles returns is a file the scanner returned,
\* a source file outside every ignored directory, is not an entry point and
\* is not the resolved target of a '.'-relative reference of a readable
\* scanned file; a file in an ignored directory and a file an entry point
\* imports are never returned.
C29_DeadFilesAreScannedAndUnused ==
    pc = "deadDone" =>
        /\ \A f \in Range(deadFiles) :
               /\ f \in scanned
               /\ hasSourceExtension(path_basename(f))
               /\ ~underIgnoredDirectory(f)
               /\ ~hasEntryName(f)
               /\ ~imported(edgeMap, f)
        /\ \A f \in disk : underIgnoredDirectory(f) => f \notin Range(deadFiles)
        /\ \A e \in scanned :
               hasEntryName(e) => Range(edgesOf(e)) \cap Range(deadFiles) = {}

\* The case of C29: index.js imports a.js, nothing refers to dist/e.js, and
\* detectDeadFiles has returned no file.
C29_Witness ==
    /\ pc = "deadDone"
    /\ importsFile(edgeMap, FileI, FileA)
    /\ ~importsFile(edgeMap, FileA, FileA)
    /\ usedFiles = {FileA}
    /\ FileE \in disk
    /\ deadFiles = <<>>

-----------------------------------------------------------------------------
(* AIProvider (src/unnamed/part_021): the registered providers, the        *)
(* fallback chain and query                                                *)

\* The names registerProviders registers, in the order of its calls.
registeredNames ==
    <<"gemini", "openai", "claude", "ollama", "llama", "openrouter", "azure",
      "cohere", "huggingface", "replicate", "together", "perplexity", "groq">>

\* The array given to setFallbackChain when the module is loaded.
defaultChain ==
    <<"gemini", "openai", "claude", "openrouter", "azure", "cohere", "ollama",
      "together", "perplexity", "groq", "huggingface", "replicate", "llama">>

\* The names the switch of queryProvider has a case for.
supportedNames == Range(registeredNames) \cup {"gpt4", "anthropic"}

\* registerProvider(name, config) for every name of registerProviders: the
\* entry of a provider; it is available when its configuration is complete,
\* and ollama always.
registerProviders(configured) ==
    [name \in Range(registeredNames) |->
        [isAvailable |-> (name \in configured \/ name = "ollama"),
         lastUsed    |-> "null",
         errorCount  |-> 0]]

\* setFallbackChain(providerNames): the names that are registered, in order.
setFallbackChain(registered, providerNames) ==
    SelectSeq(providerNames, LAMBDA name : name \in DOMAIN registered)

\* queryProvider(providerName, ...) returns: the provider is registered, the
\* switch has a case for it and its service answers; else it throws.
queryProviderReturns(providerName) ==
    /\ providerName \in DOMAIN providers
    /\ providerName \in supportedNames
    /\ providerName \in pkgInput.answering

\* The array `providers` of query: the one provider of the options, or the
\* fallback chain.
providersOf(options) ==
    IF options.provider # "" THEN <<options.provider>> ELSE fallbackChain

\* The statistics of a provider after a query that succeeded or failed; a
\* name that is not registered has none.
statsAfter(providerName, succeeded) ==
    IF providerName \notin DOMAIN providers THEN providers
    ELSE IF succeeded
    THEN [providers EXCEPT ![providerName] =
             [isAvailable |-> TRUE, lastUsed |-> "now", errorCount |-> 0]]
    ELSE [providers EXCEPT ![providerName] =
             [@ EXCEPT !.isAvailable = FALSE, !.errorCount = @ + 1]]

\* query(prompt, options) is called.
Query ==
    /\ pc = "idle"
    /\ pc' = "query"
    /\ chainIdx' = 1
    /\ queried' = <<>>
    /\ UNCHANGED <<providers, fallbackChain, pkgVars, retryVars,
                   project, cycleVars, deadVars, scanVars, runVars>>

\* One iteration of `for (const providerName of providers)`: the provider
\* is queried; its answer is returned, its failure leads to the next one.
QueryProvider ==
    /\ pc = "query"
    /\ chainIdx <= Len(providersOf(pkgInput))
    /\ LET providerName == providersOf(pkgInput)[chainIdx]
           succeeded    == queryProviderReturns(providerName)
       IN  /\ queried' = Append(queried, providerName)
           /\ providers' = statsAfter(providerName, succeeded)
           /\ IF succeeded
              THEN /\ pc' = "queryDone"
                   /\ pkgResult' = [provider |-> providerName]
                   /\ UNCHANGED chainIdx
              ELSE /\ chainIdx' = chainIdx + 1
                   /\ UNCHANGED <<pc, pkgResult>>
    /\ UNCHANGED <<fallbackChain, pkgInput, retryVars,
                   project, cycleVars, deadVars, scanVars, runVars>>

\* The loop is over: throw new Error('All AI providers failed').
QueryFails ==
    /\ pc = "query"
    /\ chainIdx > Len(providersOf(pkgInput))
    /\ pc' = "queryThrew"
    /\ pkgResult' = [error |-> "All AI providers failed"]
    /\ UNCHANGED <<queryVars, pkgInput, retryVars,
                   project, cycleVars, deadVars, scanVars, runVars>>

\* The sets of providers whose service answers: none, one or two of them.
AnsweringSets ==
    {S \in SUBSET Range(registeredNames) : Cardinality(S) <= 2}

\* The sets of providers with a complete configuration.
ConfiguredSets == {{}, {"gemini"}, Range(registeredNames)}

\* The option `provider` of a call: none, a registered name, an alias or a
\* name that is not registered.
ProviderOptions == {""} \cup Range(registeredNames) \cup {"gpt4", "mistral"}

\* The module is loaded: the providers are registered and the default
\* fallback chain is set; one call of query is to be made.
InitQuery ==
    /\ \E configured \in ConfiguredSets :
          /\ providers = registerProviders(configured)
          /\ fallbackChain = setFallbackChain(registerProviders(configured), defaultChain)
    /\ pkgInput \in [provider : ProviderOptions, answering : AnsweringSets]
    /\ pkgResult = <<>>
    /\ pc = "idle"
    /\ chainIdx = 1
    /\ queried = <<>>
    /\ attempt = 0
    /\ lastError = 0
    /\ waited = <<>>
    /\ fnCalls = <<>>
    /\ disk = {}
    /\ unreadable = {}
    /\ content = <<>>
    /\ scanOrder = <<>>
    /\ importGraph = <<>>
    /\ visited = {}
    /\ recursionStack = {}
    /\ path = <<>>
    /\ circularImports = <<>>
    /\ frames = <<>>
    /\ rootIdx = 1
    /\ usedFiles = {}
    /\ deadFiles = <<>>
    /\ fileIdx = 1
    /\ entries = <<>>
    /\ failing = {}
    /\ scanFrames = <<>>
    /\ manifest = Null
    /\ loadedPackageJson = Null
    /\ analysis = Null
    /\ earlier = Null

NextQuery ==
    \/ Query
    \/ QueryProvider
    \/ QueryFails

\* AIProvider.query called once on the instance the module exports.
SpecQuery == InitQuery /\ [][NextQuery]_vars

-----------------------------------------------------------------------------
(* Claims on the fallback order of AIProvider.query                        *)

\* The fallback chain of the README, in the names of the code: Gemini,
\* OpenAI, Claude, OpenRouter, Azure OpenAI, Cohere, Ollama, Together AI,
\* Perplexity, Hugging Face, Replicate, LLaMA.
DocumentedChain ==
    <<"gemini", "openai", "claude", "openrouter", "azure", "cohere", "ollama",
      "together", "perplexity", "huggingface", "replicate", "llama">>

\* The providers queried so far are the first ones of the chain `chain`.
queriedAlong(chain) ==
    /\ Len(queried) <= Len(chain)
    /\ \A i \in 1..Len(queried) : queried[i] = chain[i]

\* C23: query called without an explicit provider tries the providers in
\* the documented fallback order; a provider is queried only after every
\* earlier one has failed, the result returned is that of the first provider
\* that succeeds and no later one is queried, and 'All AI providers failed'
\* is thrown only when every provider of the documented chain has been tried
\* and has failed.
C23_DocumentedFallbackOrder ==
    pkgInput.provider = "" =>
        /\ queriedAlong(DocumentedChain)
        /\ \A i \in 1..(Len(queried) - 1) : queried[i] \notin pkgInput.answering
        /\ pc = "queryDone" =>
              /\ queried # <<>>
              /\ queried[Len(queried)] \in pkgInput.answering
              /\ pkgResult = [provider |-> queried[Len(queried)]]
        /\ pc = "queryThrew" =>
              /\ queried = DocumentedChain
              /\ \A i \in 1..Len(queried) : queried[i] \notin pkgInput.answering

-----------------------------------------------------------------------------
(* retry (src/utils.js)                                                    *)

\* The largest maxRetries a call is given.
MaxRetries == 3

\* The values of maxRetries: -1 leaves the loop without an attempt.
RetryCounts == (-1)..MaxRetries

\* The values of baseDelay, in milliseconds.
BaseDelays == {0, 1, 250, 1000}

\* The value a call of fn resolves with, or the error it rejects with: the
\* number of the call.
outcomeOf(callNo) == callNo

\* retry(fn, maxRetries, baseDelay) is called: let lastError (undefined,
\* written 0), attempt = 0.
Retry ==
    /\ pc = "idle"
    /\ pc' = "retryLoop"
    /\ attempt' = 0
    /\ lastError' = 0
    /\ waited' = <<>>
    /\ fnCalls' = <<>>
    /\ UNCHANGED <<queryVars, pkgVars,
                   project, cycleVars, deadVars, scanVars, runVars>>

\* A variant of RetryAttempt whose delay grows by baseDelay with every
\* attempt.
RetryAttempt_linearBackoff ==
    /\ pc = "retryLoop"
    /\ attempt <= pkgInput.maxRetries
    /\ \E succeeds \in BOOLEAN :
          LET callNo == Len(fnCalls) + 1
          IN  /\ fnCalls' = Append(fnCalls, [ok |-> succeeds, outcome |-> outcomeOf(callNo)])
              /\ IF succeeds
                 THEN /\ pc' = "retryReturned"
                      /\ pkgResult' = [value |-> outcomeOf(callNo)]
                      /\ UNCHANGED <<lastError, waited>>
                 ELSE /\ lastError' = outcomeOf(callNo)
                      /\ IF attempt = pkgInput.maxRetries
                         THEN /\ pc' = "retryThrew"
                              /\ pkgResult' = [error |-> outcomeOf(callNo)]
                              /\ UNCHANGED waited
                         ELSE /\ waited' = Append(waited, pkgInput.baseDelay * (attempt + 1))
                              /\ pc' = "retryWait"
                              /\ UNCHANGED pkgResult
    /\ UNCHANGED <<attempt, queryVars, pkgInput,
                   project, cycleVars, deadVars, scanVars, runVars>>

\* One pass of the loop body: fn is called; its value is returned; its
\* error is kept in lastError and thrown at the last attempt, and before any
\* other attempt a timer of baseDelay * 2^attempt is set.
RetryAttempt ==
    /\ pc = "retryLoop"
    /\ attempt <= pkgInput.maxRetries
    /\ \E succeeds \in BOOLEAN :
          LET callNo == Len(fnCalls) + 1
          IN  /\ fnCalls' = Append(fnCalls, [ok |-> succeeds, outcome |-> outcomeOf(callNo)])
              /\ IF succeeds
                 THEN /\ pc' = "retryReturned"
                      /\ pkgResult' = [value |-> outcomeOf(callNo)]
                      /\ UNCHANGED <<lastError, waited>>
                 ELSE /\ lastError' = outcomeOf(callNo)
                      /\ IF attempt = pkgInput.maxRetries
                         THEN /\ pc' = "retryThrew"
                              /\ pkgResult' = [error |-> outcomeOf(callNo)]
                              /\ UNCHANGED waited
                         ELSE /\ waited' = Append(waited, pkgInput.baseDelay * 2^attempt)
                              /\ pc' = "retryWait"
                              /\ UNCHANGED pkgResult
    /\ UNCHANGED <<attempt, queryVars, pkgInput,
                   project, cycleVars, deadVars, scanVars, runVars>>

\* The timer fires: attempt++ and the loop condition is tested again.
RetryWake ==
    /\ pc = "retryWait"
    /\ attempt' = attempt + 1
    /\ pc' = "retryLoop"
    /\ UNCHANGED <<lastError, waited, fnCalls, queryVars, pkgVars,
                   project, cycleVars, deadVars, scanVars, runVars>>

\* The loop condition attempt <= maxRetries is false: throw lastError.
RetryExhausted ==
    /\ pc = "retryLoop"
    /\ attempt > pkgInput.maxRetries
    /\ pc' = "retryThrew"
    /\ pkgResult' = [error |-> lastError]
    /\ UNCHANGED <<retryVars, queryVars, pkgInput,
                   project, cycleVars, deadVars, scanVars, runVars>>

\* One call of retry is to be made, with a maxRetries and a baseDelay.
InitRetry ==
    /\ pkgInput \in [maxRetries : RetryCounts, baseDelay : BaseDelays]
    /\ pkgResult = <<>>
    /\ pc = "idle"
    /\ NoProviderNoRetry
    /\ disk = {}
    /\ unreadable = {}
    /\ content = <<>>
    /\ scanOrder = <<>>
    /\ importGraph = <<>>
    /\ visited = {}
    /\ recursionStack = {}
    /\ path = <<>>
    /\ circularImports = <<>>
    /\ frames = <<>>
    /\ rootIdx = 1
    /\ usedFiles = {}
    /\ deadFiles = <<>>
    /\ fileIdx = 1
    /\ entries = <<>>
    /\ failing = {}
    /\ scanFrames = <<>>
    /\ manifest = Null
    /\ loadedPackageJson = Null
    /\ analysis = Null
    /\ earlier = Null

NextRetry ==
    \/ Retry
    \/ RetryAttempt
    \/ RetryWake
    \/ RetryExhausted

\* retry called once; every call of fn may succeed or fail.
SpecRetry == InitRetry /\ [][NextRetry]_vars

\* A call of fn settles and a timer that was set fires.
RetryFairness == WF_vars(RetryAttempt \/ RetryWake \/ RetryExhausted)

SpecRetryFair == InitRetry /\ [][NextRetry]_vars /\ RetryFairness

-----------------------------------------------------------------------------
(* Claims on retry                                                         *)

\* fn has been called at most maxRetries + 1 times and no call follows a
\* call that succeeded.
callsBounded ==
    /\ Len(fnCalls) <= pkgInput.maxRetries + 1
    /\ \A i \in 1..(Len(fnCalls) - 1) : ~fnCalls[i].ok

\* What retry returns is the value of the first call that succeeded.
returnsFirstSuccess ==
    pc = "retryReturned" =>
        \E i \in 1..Len(fnCalls) :
            /\ fnCalls[i].ok
            /\ \A j \in 1..(i - 1) : ~fnCalls[j].ok
            /\ pkgResult = [value |-> fnCalls[i].outcome]

\* After maxRetries + 1 failed calls retry throws the error of the last one.
throwsLastError ==
    (/\ pc = "retryThrew"
     /\ fnCalls # <<>>
     /\ \A i \in 1..Len(fnCalls) : ~fnCalls[i].ok) =>
        /\ Len(fnCalls) = pkgInput.maxRetries + 1
        /\ pkgResult = [error |-> fnCalls[Len(fnCalls)].outcome]

\* The wait after failed attempt k is baseDelay * 2^k, and every call but
\* the first comes after the wait that follows the call before it.
waitsDouble ==
    /\ \A k \in 0..(Len(waited) - 1) : waited[k + 1] = pkgInput.baseDelay * 2^k
    /\ Len(fnCalls) <= Len(waited) + 1
    /\ Len(waited) <= Len(fnCalls)

\* retry has returned or thrown.
retrySettled == pc \in {"retryReturned", "retryThrew"}

\* C30: retry calls fn at most maxRetries + 1 times and never again after a
\* call that succeeded, returns the value of the first successful call,
\* throws the error of the last call when all maxRetries + 1 calls fail,
\* waits baseDelay * 2^k before the retry that follows failed attempt k, and
\* always terminates.
C30_RetryIsBoundedAndBacksOff ==
    /\ [](callsBounded /\ returnsFirstSuccess /\ throwsLastError /\ waitsDouble)
    /\ (pc \in {"retryLoop", "retryWait"}) ~> retrySettled

\* retry has thrown the error of the fourth call after waits of 250, 500 and
\* 1000 milliseconds.
C30_Witness ==
    /\ pc = "retryThrew"
    /\ pkgInput = [maxRetries |-> 3, baseDelay |-> 250]
    /\ Len(fnCalls) = 4
    /\ waited = <<250, 500, 1000>>
    /\ pkgResult = [error |-> 4]

=============================================================================
